---- MODULE Spec2Model ----
(***************************************************************************)
(* A model of the key-bundle code of kbfs: the per-device key maps of      *)
(* kbfsmd (DeviceKeyInfoMapV3, UserDeviceKeyInfoMapV3), the key splitter   *)
(* SplitTLFCryptKey, ExtraMetadataV3 and the metadata version gate of      *)
(* libkbfs.MakeInitialBareRootMetadata.                                    *)
(*                                                                         *)
(* Go maps are functions whose DOMAIN is the set of keys present.  A Go    *)
(* function that mutates its receiver and returns values is an operator    *)
(* returning a record with the receiver's new value and the results; the   *)
(* action that calls it stores both.  Each action records the call in      *)
(* `ret` (the operation, its arguments, the receiver before the call and   *)
(* the results), so that a contract of the operation is a state predicate  *)
(* over `ret`.                                                             *)
(***************************************************************************)
EXTENDS Integers, Sequences, FiniteSets, TLC

VARIABLES
    udkimV3,    \* the UserDeviceKeyInfoMapV3 the map operations act on
    extra,      \* the ExtraMetadataV3 the ExtraMetadataV3 methods act on
    md,         \* the metadata revision the rekey operations act on
    mdServer,   \* the accepted revisions of a folder and the writers' candidates
    ret         \* the last call: operation, arguments, receiver before, results

vars == <<udkimV3, extra, md, mdServer, ret>>

-----------------------------------------------------------------------------
(* Bounds and universes *)

\* Width in bits of a TLFCryptKey and of its two halves (32 bytes in the code).
KeyBits == 1

\* The number of ephemeral public keys of a bundle: the valid indices are
\* 0 .. MaxIndex - 1, and SplitTLFCryptKey is tried with -1 .. MaxIndex.
MaxIndex == 2

\* How far outside the valid range the metadata versions tried go.
VerSlack == 2

\* keybase1.UID values.
Users == {"u1", "u2"}

\* kbfscrypto.CryptPublicKey values, and the devices each user may own.
DevicesOf == [u \in Users |-> IF u = "u1" THEN {"k1", "k2"} ELSE {"k3"}]

Devices == UNION {DevicesOf[u] : u \in Users}

\* kbfscrypto.TLFEphemeralPrivateKey values.
EPrivKeys == {"e0", "e1"}

\* TLFCryptKey, TLFCryptKeyServerHalf and TLFCryptKeyClientHalf values.
KeyVals == 0 .. (2 ^ KeyBits - 1)

\* The ephemeral key indices SplitTLFCryptKey is tried with.
Indices == (-1) .. MaxIndex

\* The key map of Spec is that of one key generation: every fill splits that
\* generation's TLFCryptKey, under the ephemeral key pair of the rekey going
\* on, which is the bundle's second pair (index 1).
GenCryptKey == 2 ^ KeyBits - 1

FillIndices == {1}

EPrivKeyAt == [i \in FillIndices |-> "e1"]

\* Go's nil error, and the errors a cryptoPure implementation may return.
Nil == "nil"

ErrVals == {"errA", "errB"}

\* The empty Go map (of any key and value type).
EmptyMap == <<>>

\* All orders in which a range loop may visit the keys of the set S.
LoopOrders(S) == {o \in [1 .. Cardinality(S) -> S] : \A i, j \in 1 .. Cardinality(S) : o[i] = o[j] => i = j}

OrdersTable == [S \in SUBSET (Users \cup Devices) |-> LoopOrders(S)]

Orders(S) == OrdersTable[S]

\* The map m with key k set to v (Go: m[k] = v).
MapSet(m, k, v) == [x \in (DOMAIN m) \cup {k} |-> IF x = k THEN v ELSE m[x]]

\* The map m without key k (Go: delete(m, k)).
MapDelete(m, k) == [x \in (DOMAIN m) \ {k} |-> m[x]]

-----------------------------------------------------------------------------
(* kbfscrypto values *)

RECURSIVE XorBits(_, _, _)
\* Bitwise exclusive or of the n low bits of a and b.
XorBits(a, b, n) == IF n = 0 THEN 0 ELSE (((a % 2) + (b % 2)) % 2) + (2 * XorBits(a \div 2, b \div 2, n - 1))

\* kbfscrypto.MaskTLFCryptKey: the client half of a key under a server half.
MaskTLFCryptKey(serverHalf, key) == XorBits(serverHalf, key, KeyBits)

\* kbfscrypto.UnmaskTLFCryptKey: the key from its two halves.
UnmaskTLFCryptKey(serverHalf, clientHalf) == XorBits(serverHalf, clientHalf, KeyBits)

\* kbfscrypto.EncryptionSecretbox.
EncryptionSecretbox == 1

\* The zero values of the Go types returned on an error.
ZeroServerHalf == 0

ZeroEncryptedData == [Version |-> 0, Data |-> <<>>, Nonce |-> <<>>]

ZeroServerHalfID == [ID |-> <<>>]

ZeroTLFCryptKeyInfo == [ClientHalf |-> ZeroEncryptedData, ServerHalfID |-> ZeroServerHalfID, EPubKeyIndex |-> 0]

-----------------------------------------------------------------------------
(* cryptoPure: a recording test double.  A crypto value c fixes what the    *)
(* implementation answers: the n-th random server half it hands out is      *)
(* c.seed + (n - 1) (in the key width, so consecutive halves differ), and   *)
(* during the c.failAt-th key split the method c.failIn fails with error    *)
(* c.err (c.failAt = 0: nothing fails).                                     *)

Methods == {"MakeRandomTLFCryptKeyServerHalf", "EncryptTLFCryptKeyClientHalf", "GetTLFCryptKeyServerHalfID"}

Cryptos(maxSplits) == [seed : KeyVals, failAt : 0 .. maxSplits, failIn : Methods, err : ErrVals]

\* The same without the duplicates: a crypto under which nothing fails names
\* no failing method and no error.
MapCryptos(maxSplits) ==
    {c \in Cryptos(maxSplits) : c.failAt = 0 => (c.failIn = "MakeRandomTLFCryptKeyServerHalf" /\ c.err = "errA")}

Fails(c, n, method) == c.failAt = n /\ c.failIn = method

MakeRandomTLFCryptKeyServerHalf(c, n) ==
    IF Fails(c, n, "MakeRandomTLFCryptKeyServerHalf")
    THEN [val |-> ZeroServerHalf, err |-> c.err]
    ELSE [val |-> (c.seed + (n - 1)) % (2 ^ KeyBits), err |-> Nil]

EncryptTLFCryptKeyClientHalf(c, n, privateKey, publicKey, clientHalf) ==
    IF Fails(c, n, "EncryptTLFCryptKeyClientHalf")
    THEN [val |-> ZeroEncryptedData, err |-> c.err]
    ELSE [val |-> [Version |-> EncryptionSecretbox, Data |-> <<privateKey, publicKey, clientHalf>>, Nonce |-> <<"nonce">>], err |-> Nil]

GetTLFCryptKeyServerHalfID(c, n, user, devicePubKey, serverHalf) ==
    IF Fails(c, n, "GetTLFCryptKeyServerHalfID")
    THEN [val |-> ZeroServerHalfID, err |-> c.err]
    ELSE [val |-> [ID |-> <<user, devicePubKey, serverHalf>>], err |-> Nil]

\* The key pairs: the private key of a device public key, and the public key of
\* an ephemeral private key.
DevicePrivateKey(publicKey) == <<"private", publicKey>>

EPublicKey(ePrivKey) == <<"public", ePrivKey>>

\* Decryption of an encrypted client half: the box opens only for the device
\* private key and the ephemeral public key matching the pair it was sealed
\* under.
DecryptTLFCryptKeyClientHalf(devicePrivateKey, ePubKey, encrypted) ==
    IF /\ encrypted.Version = EncryptionSecretbox
       /\ Len(encrypted.Data) = 3
       /\ ePubKey = EPublicKey(encrypted.Data[1])
       /\ devicePrivateKey = DevicePrivateKey(encrypted.Data[2])
    THEN [val |-> encrypted.Data[3], err |-> Nil]
    ELSE [val |-> 0, err |-> "decryption failed"]

-----------------------------------------------------------------------------
(* SplitTLFCryptKey (kbfsmd/key_bundle.go).  n is the number of this split  *)
(* among the splits of the enclosing operation (the test double's state).   *)
(* calls lists the cryptoPure methods invoked, in order.                    *)

\* Variants of the split that differ from the code in one decision.
\* This one encrypts the key itself in place of its masked client half.
SplitTLFCryptKeyUnmasked(crypto, n, uid, tlfCryptKey, ePrivKey, ePubIndex, pubKey) ==
    LET r1 == MakeRandomTLFCryptKeyServerHalf(crypto, n)
        serverHalf == r1.val
        r2 == EncryptTLFCryptKeyClientHalf(crypto, n, ePrivKey, pubKey, tlfCryptKey)
        r3 == GetTLFCryptKeyServerHalfID(crypto, n, uid, pubKey, serverHalf)
    IN  IF r1.err # Nil
        THEN [info |-> ZeroTLFCryptKeyInfo, serverHalf |-> ZeroServerHalf, err |-> r1.err,
              calls |-> <<"MakeRandomTLFCryptKeyServerHalf">>]
        ELSE IF r2.err # Nil
        THEN [info |-> ZeroTLFCryptKeyInfo, serverHalf |-> ZeroServerHalf, err |-> r2.err,
              calls |-> <<"MakeRandomTLFCryptKeyServerHalf", "EncryptTLFCryptKeyClientHalf">>]
        ELSE IF r3.err # Nil
        THEN [info |-> ZeroTLFCryptKeyInfo, serverHalf |-> ZeroServerHalf, err |-> r3.err,
              calls |-> <<"MakeRandomTLFCryptKeyServerHalf", "EncryptTLFCryptKeyClientHalf", "GetTLFCryptKeyServerHalfID">>]
        ELSE [info |-> [ClientHalf |-> r2.val, ServerHalfID |-> r3.val, EPubKeyIndex |-> ePubIndex],
              serverHalf |-> serverHalf, err |-> Nil,
              calls |-> <<"MakeRandomTLFCryptKeyServerHalf", "EncryptTLFCryptKeyClientHalf", "GetTLFCryptKeyServerHalfID">>]

\* This one looks at the encryption's error only after it has asked for the
\* server half ID, and then returns the server half it made.
SplitTLFCryptKeyLateCheck(crypto, n, uid, tlfCryptKey, ePrivKey, ePubIndex, pubKey) ==
    LET r1 == MakeRandomTLFCryptKeyServerHalf(crypto, n)
        serverHalf == r1.val
        clientHalf == MaskTLFCryptKey(serverHalf, tlfCryptKey)
        r2 == EncryptTLFCryptKeyClientHalf(crypto, n, ePrivKey, pubKey, clientHalf)
        r3 == GetTLFCryptKeyServerHalfID(crypto, n, uid, pubKey, serverHalf)
    IN  IF r1.err # Nil
        THEN [info |-> ZeroTLFCryptKeyInfo, serverHalf |-> ZeroServerHalf, err |-> r1.err,
              calls |-> <<"MakeRandomTLFCryptKeyServerHalf">>]
        ELSE IF r2.err # Nil
        THEN [info |-> ZeroTLFCryptKeyInfo, serverHalf |-> serverHalf, err |-> r2.err,
              calls |-> <<"MakeRandomTLFCryptKeyServerHalf", "EncryptTLFCryptKeyClientHalf", "GetTLFCryptKeyServerHalfID">>]
        ELSE IF r3.err # Nil
        THEN [info |-> ZeroTLFCryptKeyInfo, serverHalf |-> ZeroServerHalf, err |-> r3.err,
              calls |-> <<"MakeRandomTLFCryptKeyServerHalf", "EncryptTLFCryptKeyClientHalf", "GetTLFCryptKeyServerHalfID">>]
        ELSE [info |-> [ClientHalf |-> r2.val, ServerHalfID |-> r3.val, EPubKeyIndex |-> ePubIndex],
              serverHalf |-> serverHalf, err |-> Nil,
              calls |-> <<"MakeRandomTLFCryptKeyServerHalf", "EncryptTLFCryptKeyClientHalf", "GetTLFCryptKeyServerHalfID">>]
\* A variant that computes the server half ID from the client half.
SplitTLFCryptKeyIDOfClientHalf(crypto, n, uid, tlfCryptKey, ePrivKey, ePubIndex, pubKey) ==
    LET r1 == MakeRandomTLFCryptKeyServerHalf(crypto, n)
        serverHalf == r1.val
        clientHalf == MaskTLFCryptKey(serverHalf, tlfCryptKey)
        r2 == EncryptTLFCryptKeyClientHalf(crypto, n, ePrivKey, pubKey, clientHalf)
        r3 == GetTLFCryptKeyServerHalfID(crypto, n, uid, pubKey, clientHalf)
    IN  IF r1.err # Nil \/ r2.err # Nil \/ r3.err # Nil
        THEN [info |-> ZeroTLFCryptKeyInfo, serverHalf |-> ZeroServerHalf,
              err |-> IF r1.err # Nil THEN r1.err ELSE IF r2.err # Nil THEN r2.err ELSE r3.err,
              calls |-> <<"MakeRandomTLFCryptKeyServerHalf">>]
        ELSE [info |-> [ClientHalf |-> r2.val, ServerHalfID |-> r3.val, EPubKeyIndex |-> ePubIndex],
              serverHalf |-> serverHalf, err |-> Nil,
              calls |-> <<"MakeRandomTLFCryptKeyServerHalf", "EncryptTLFCryptKeyClientHalf", "GetTLFCryptKeyServerHalfID">>]

SplitTLFCryptKey(crypto, n, uid, tlfCryptKey, ePrivKey, ePubIndex, pubKey) ==
    LET r1 == MakeRandomTLFCryptKeyServerHalf(crypto, n)
        serverHalf == r1.val
        clientHalf == MaskTLFCryptKey(serverHalf, tlfCryptKey)
        r2 == EncryptTLFCryptKeyClientHalf(crypto, n, ePrivKey, pubKey, clientHalf)
        r3 == GetTLFCryptKeyServerHalfID(crypto, n, uid, pubKey, serverHalf)
    IN  IF r1.err # Nil
        THEN [info |-> ZeroTLFCryptKeyInfo, serverHalf |-> ZeroServerHalf, err |-> r1.err,
              calls |-> <<"MakeRandomTLFCryptKeyServerHalf">>]
        ELSE IF r2.err # Nil
        THEN [info |-> ZeroTLFCryptKeyInfo, serverHalf |-> ZeroServerHalf, err |-> r2.err,
              calls |-> <<"MakeRandomTLFCryptKeyServerHalf", "EncryptTLFCryptKeyClientHalf">>]
        ELSE IF r3.err # Nil
        THEN [info |-> ZeroTLFCryptKeyInfo, serverHalf |-> ZeroServerHalf, err |-> r3.err,
              calls |-> <<"MakeRandomTLFCryptKeyServerHalf", "EncryptTLFCryptKeyClientHalf", "GetTLFCryptKeyServerHalfID">>]
        ELSE [info |-> [ClientHalf |-> r2.val, ServerHalfID |-> r3.val, EPubKeyIndex |-> ePubIndex],
              serverHalf |-> serverHalf, err |-> Nil,
              calls |-> <<"MakeRandomTLFCryptKeyServerHalf", "EncryptTLFCryptKeyClientHalf", "GetTLFCryptKeyServerHalfID">>]

-----------------------------------------------------------------------------
(* DeviceKeyInfoMapV3.FillInDeviceInfos (kbfsmd/key_bundle_v3.go).  The loop *)
(* state st holds the receiver dkimV3, the serverHalves built so far, the    *)
(* error the function returned with (Nil while the loop runs) and n, the     *)
(* number of key splits the crypto has done.  a holds the arguments.         *)

\* Variants of the iteration that differ from the code in one decision.
\* This one splits the key again for a device that already has an entry.
FillInDeviceInfosStepOverwrites(st, a, k) ==
    IF st.err # Nil THEN st
    ELSE LET s == SplitTLFCryptKey(a.crypto, st.n + 1, a.uid, a.tlfCryptKey, a.ePrivKey, a.ePubIndex, k)
         IN  IF s.err # Nil
             THEN [st EXCEPT !.serverHalves = EmptyMap, !.err = s.err, !.n = st.n + 1]
             ELSE [dkimV3 |-> MapSet(st.dkimV3, k, s.info),
                   serverHalves |-> MapSet(st.serverHalves, k, s.serverHalf),
                   err |-> Nil, n |-> st.n + 1]

\* This one keeps an entry only when it was made under the same ephemeral
\* key index.
FillInDeviceInfosStepPerIndex(st, a, k) ==
    IF st.err # Nil THEN st
    ELSE IF k \in DOMAIN st.dkimV3 /\ st.dkimV3[k].EPubKeyIndex = a.ePubIndex THEN st
    ELSE LET s == SplitTLFCryptKey(a.crypto, st.n + 1, a.uid, a.tlfCryptKey, a.ePrivKey, a.ePubIndex, k)
         IN  IF s.err # Nil
             THEN [st EXCEPT !.serverHalves = EmptyMap, !.err = s.err, !.n = st.n + 1]
             ELSE [dkimV3 |-> MapSet(st.dkimV3, k, s.info),
                   serverHalves |-> MapSet(st.serverHalves, k, s.serverHalf),
                   err |-> Nil, n |-> st.n + 1]

\* One iteration of the range loop, for device key k.
FillInDeviceInfosStep(st, a, k) ==
    IF st.err # Nil THEN st
    ELSE IF k \in DOMAIN st.dkimV3 THEN st
    ELSE LET s == SplitTLFCryptKey(a.crypto, st.n + 1, a.uid, a.tlfCryptKey, a.ePrivKey, a.ePubIndex, k)
         IN  IF s.err # Nil
             THEN [st EXCEPT !.serverHalves = EmptyMap, !.err = s.err, !.n = st.n + 1]
             ELSE [dkimV3 |-> MapSet(st.dkimV3, k, s.info),
                   serverHalves |-> MapSet(st.serverHalves, k, s.serverHalf),
                   err |-> Nil, n |-> st.n + 1]

RECURSIVE FillInDeviceInfosLoop(_, _, _, _)
FillInDeviceInfosLoop(st, a, order, i) ==
    IF i > Len(order) THEN st
    ELSE FillInDeviceInfosLoop(FillInDeviceInfosStep(st, a, order[i]), a, order, i + 1)

\* dkimV3.FillInDeviceInfos(...), the loop visiting updatedDeviceKeys in `order`.
\* n0 is the number of splits the crypto has done before the call.
FillInDeviceInfos(dkimV3, a, n0, updatedDeviceKeys, order) ==
    FillInDeviceInfosLoop([dkimV3 |-> dkimV3, serverHalves |-> EmptyMap, err |-> Nil, n |-> n0], a, order, 1)

-----------------------------------------------------------------------------
(* UserDeviceKeyInfoMapV3.FillInUserInfos.  The loop state st holds the      *)
(* receiver udkimV3, the serverHalves built so far, err and n as above.      *)
(* dorders gives, per user, the order of the inner loop over its devices.    *)

\* A variant of the iteration that stores a user's device map only when it
\* has entries.
FillInUserInfosStepSkipsEmpty(st, a, updatedUserKeys, dorders, u) ==
    IF st.err # Nil THEN st
    ELSE LET dkim0 == IF u \in DOMAIN st.udkimV3 THEN st.udkimV3[u] ELSE EmptyMap
             r == FillInDeviceInfos(dkim0, [a EXCEPT !.uid = u], st.n, updatedUserKeys[u], dorders[u])
             udkim1 == IF DOMAIN r.dkimV3 # {} THEN MapSet(st.udkimV3, u, r.dkimV3) ELSE st.udkimV3
         IN  IF r.err # Nil
             THEN [udkimV3 |-> udkim1, serverHalves |-> EmptyMap, err |-> r.err, n |-> r.n]
             ELSE [udkimV3 |-> udkim1,
                   serverHalves |-> IF DOMAIN r.serverHalves # {} THEN MapSet(st.serverHalves, u, r.serverHalves) ELSE st.serverHalves,
                   err |-> Nil, n |-> r.n]

\* One iteration of the range loop, for user u.
FillInUserInfosStep(st, a, updatedUserKeys, dorders, u) ==
    IF st.err # Nil THEN st
    ELSE LET dkim0 == IF u \in DOMAIN st.udkimV3 THEN st.udkimV3[u] ELSE EmptyMap
             r == FillInDeviceInfos(dkim0, [a EXCEPT !.uid = u], st.n, updatedUserKeys[u], dorders[u])
             udkim1 == MapSet(st.udkimV3, u, r.dkimV3)
         IN  IF r.err # Nil
             THEN [udkimV3 |-> udkim1, serverHalves |-> EmptyMap, err |-> r.err, n |-> r.n]
             ELSE [udkimV3 |-> udkim1,
                   serverHalves |-> IF DOMAIN r.serverHalves # {} THEN MapSet(st.serverHalves, u, r.serverHalves) ELSE st.serverHalves,
                   err |-> Nil, n |-> r.n]

RECURSIVE FillInUserInfosLoop(_, _, _, _, _, _)
FillInUserInfosLoop(st, a, updatedUserKeys, dorders, uorder, i) ==
    IF i > Len(uorder) THEN st
    ELSE FillInUserInfosLoop(FillInUserInfosStep(st, a, updatedUserKeys, dorders, uorder[i]), a, updatedUserKeys, dorders, uorder, i + 1)

\* udkimV3.FillInUserInfos(crypto, newIndex, updatedUserKeys, ePrivKey, tlfCryptKey),
\* the loop visiting the users in uorder.
FillInUserInfos(udkim, a, updatedUserKeys, uorder, dorders) ==
    FillInUserInfosLoop([udkimV3 |-> udkim, serverHalves |-> EmptyMap, err |-> Nil, n |-> 0], a, updatedUserKeys, dorders, uorder, 1)

-----------------------------------------------------------------------------
(* UserDeviceKeyInfoMapV3.RemoveDevicesNotIn.  The loop state st holds the   *)
(* receiver udkimV3 and the removalInfo built so far.                        *)

\* A variant of the lookup that takes a listed key as allowed whatever its value.
AllowedIfListed(deviceKeys, key) == key \in DOMAIN deviceKeys

\* deviceKeys[key] of a Go map[CryptPublicKey]bool: false for a missing key.
Allowed(deviceKeys, key) == key \in DOMAIN deviceKeys /\ deviceKeys[key]

\* Variants of the iteration that differ from the code in one decision.
\* This one reports an absent user but leaves its entry in the map.
RemoveDevicesNotInStepKeepsUser(st, updatedUserKeys, uid) ==
    LET dkim == st.udkimV3[uid]
    IN  IF uid \in DOMAIN updatedUserKeys
        THEN LET deviceKeys == updatedUserKeys[uid]
                 removed == {key \in DOMAIN dkim : ~(key \in DOMAIN deviceKeys /\ deviceKeys[key])}
                 dkim1 == [key \in (DOMAIN dkim) \ removed |-> dkim[key]]
                 deviceServerHalfIDs == [key \in removed |-> <<dkim[key].ServerHalfID>>]
             IN  IF removed = {}
                 THEN st
                 ELSE [udkimV3 |-> MapSet(st.udkimV3, uid, dkim1),
                       removalInfo |-> MapSet(st.removalInfo, uid,
                           [UserRemoved |-> FALSE, DeviceServerHalfIDs |-> deviceServerHalfIDs])]
        ELSE LET deviceServerHalfIDs == [key \in DOMAIN dkim |-> <<dkim[key].ServerHalfID>>]
             IN  [udkimV3 |-> st.udkimV3,
                  removalInfo |-> MapSet(st.removalInfo, uid,
                      [UserRemoved |-> TRUE, DeviceServerHalfIDs |-> deviceServerHalfIDs])]

\* This one reports every user it visits, also one that lost no device.
RemoveDevicesNotInStepReportsAll(st, updatedUserKeys, uid) ==
    LET dkim == st.udkimV3[uid]
    IN  IF uid \in DOMAIN updatedUserKeys
        THEN LET deviceKeys == updatedUserKeys[uid]
                 removed == {key \in DOMAIN dkim : ~(key \in DOMAIN deviceKeys /\ deviceKeys[key])}
                 dkim1 == [key \in (DOMAIN dkim) \ removed |-> dkim[key]]
                 deviceServerHalfIDs == [key \in removed |-> <<dkim[key].ServerHalfID>>]
             IN  [udkimV3 |-> MapSet(st.udkimV3, uid, dkim1),
                  removalInfo |-> MapSet(st.removalInfo, uid,
                      [UserRemoved |-> FALSE, DeviceServerHalfIDs |-> deviceServerHalfIDs])]
        ELSE LET deviceServerHalfIDs == [key \in DOMAIN dkim |-> <<dkim[key].ServerHalfID>>]
             IN  [udkimV3 |-> MapDelete(st.udkimV3, uid),
                  removalInfo |-> MapSet(st.removalInfo, uid,
                      [UserRemoved |-> TRUE, DeviceServerHalfIDs |-> deviceServerHalfIDs])]

\* A variant that reports the devices not allowed and leaves them in the map.
RemoveDevicesNotInStepReportsOnly(st, updatedUserKeys, uid) ==
    LET dkim == st.udkimV3[uid]
    IN  IF uid \in DOMAIN updatedUserKeys
        THEN LET removed == {key \in DOMAIN dkim : ~Allowed(updatedUserKeys[uid], key)}
             IN  IF removed = {}
                 THEN st
                 ELSE [st EXCEPT !.removalInfo = MapSet(st.removalInfo, uid,
                           [UserRemoved |-> FALSE, DeviceServerHalfIDs |-> [key \in removed |-> <<dkim[key].ServerHalfID>>]])]
        ELSE [udkimV3 |-> MapDelete(st.udkimV3, uid),
              removalInfo |-> MapSet(st.removalInfo, uid,
                  [UserRemoved |-> TRUE, DeviceServerHalfIDs |-> [key \in DOMAIN dkim |-> <<dkim[key].ServerHalfID>>]])]

\* One iteration of the range loop, for user uid.
RemoveDevicesNotInStep(st, updatedUserKeys, uid) ==
    LET dkim == st.udkimV3[uid]
    IN  IF uid \in DOMAIN updatedUserKeys
        THEN LET deviceKeys == updatedUserKeys[uid]
                 removed == {key \in DOMAIN dkim : ~Allowed(deviceKeys, key)}
                 dkim1 == [key \in (DOMAIN dkim) \ removed |-> dkim[key]]
                 deviceServerHalfIDs == [key \in removed |-> <<dkim[key].ServerHalfID>>]
             IN  IF removed = {}
                 THEN st
                 ELSE [udkimV3 |-> MapSet(st.udkimV3, uid, dkim1),
                       removalInfo |-> MapSet(st.removalInfo, uid,
                           [UserRemoved |-> FALSE, DeviceServerHalfIDs |-> deviceServerHalfIDs])]
        ELSE LET deviceServerHalfIDs == [key \in DOMAIN dkim |-> <<dkim[key].ServerHalfID>>]
             IN  [udkimV3 |-> MapDelete(st.udkimV3, uid),
                  removalInfo |-> MapSet(st.removalInfo, uid,
                      [UserRemoved |-> TRUE, DeviceServerHalfIDs |-> deviceServerHalfIDs])]

RECURSIVE RemoveDevicesNotInLoop(_, _, _, _)
RemoveDevicesNotInLoop(st, updatedUserKeys, uorder, i) ==
    IF i > Len(uorder) THEN st
    ELSE RemoveDevicesNotInLoop(RemoveDevicesNotInStep(st, updatedUserKeys, uorder[i]), updatedUserKeys, uorder, i + 1)

\* udkimV3.RemoveDevicesNotIn(updatedUserKeys), the loop visiting the users of
\* the receiver in uorder.
RemoveDevicesNotIn(udkim, updatedUserKeys, uorder) ==
    RemoveDevicesNotInLoop([udkimV3 |-> udkim, removalInfo |-> EmptyMap], updatedUserKeys, uorder, 1)

\* A variant of ToPublicKeys that lists every device with the zero bool.
DkimToPublicKeysZeroValue(dkimV3) == [key \in DOMAIN dkimV3 |-> FALSE]

\* dkimV3.ToPublicKeys() and udkimV3.ToPublicKeys().
DkimToPublicKeys(dkimV3) == [key \in DOMAIN dkimV3 |-> TRUE]

ToPublicKeys(udkim) == [u \in DOMAIN udkim |-> DkimToPublicKeys(udkim[u])]

-----------------------------------------------------------------------------
(* The arguments the actions draw *)

\* DevicePublicKeys values for the devices of user u (a Go map to bool: a
\* device may be listed with the value false).
DevicePublicKeysOf(u) == UNION {[S -> BOOLEAN] : S \in SUBSET DevicesOf[u]}

\* UserDevicePublicKeys values.
UserDevicePublicKeys ==
    UNION {{m \in [us -> UNION {DevicePublicKeysOf(u) : u \in us}] : \A u \in us : m[u] \in DevicePublicKeysOf(u)} : us \in SUBSET Users}

\* The orders of the inner loops of FillInUserInfos: one per user of m.
RECURSIVE DeviceOrdersOver(_, _)
DeviceOrdersOver(m, us) ==
    IF us = {} THEN {EmptyMap}
    ELSE LET u == CHOOSE x \in us : TRUE
         IN  {MapSet(d, u, o) : d \in DeviceOrdersOver(m, us \ {u}), o \in Orders(DOMAIN m[u])}

DeviceOrders(m) == DeviceOrdersOver(m, DOMAIN m)

\* The number of devices of m that udkim has no entry for: the key splits a
\* successful FillInUserInfos(m) makes.
RECURSIVE CountNewDevices(_, _, _)
CountNewDevices(udkim, m, us) ==
    IF us = {} THEN 0
    ELSE LET u == CHOOSE x \in us : TRUE
             have == IF u \in DOMAIN udkim THEN DOMAIN udkim[u] ELSE {}
         IN  Cardinality((DOMAIN m[u]) \ have) + CountNewDevices(udkim, m, us \ {u})

NoCall == [op |-> "none"]

NoExtra == [op |-> "none"]

NoMD == [none |-> TRUE]

NoServer == [none |-> TRUE]

-----------------------------------------------------------------------------
(* Spec: the key map of one key generation under FillInUserInfos,            *)
(* FillInDeviceInfos and RemoveDevicesNotIn.  A call is made when the        *)
(* previous one has been taken by the caller (ret = NoCall).                 *)

Init ==
    /\ udkimV3 = EmptyMap
    /\ extra = NoExtra
    /\ md = NoMD
    /\ mdServer = NoServer
    /\ ret = NoCall

DoFillInDeviceInfos ==
    /\ ret = NoCall
    /\ \E uid \in DOMAIN udkimV3, ePubIndex \in FillIndices :
         \E updatedDeviceKeys \in DevicePublicKeysOf(uid) :
           \E crypto \in MapCryptos(Cardinality((DOMAIN updatedDeviceKeys) \ DOMAIN udkimV3[uid])), order \in Orders(DOMAIN updatedDeviceKeys) :
             \E r \in {FillInDeviceInfos(udkimV3[uid],
                           [crypto |-> crypto, uid |-> uid, tlfCryptKey |-> GenCryptKey,
                            ePrivKey |-> EPrivKeyAt[ePubIndex], ePubIndex |-> ePubIndex],
                           0, updatedDeviceKeys, order)} :
                 /\ udkimV3' = MapSet(udkimV3, uid, r.dkimV3)
                 /\ ret' = [op |-> "FillInDeviceInfos", pre |-> udkimV3, uid |-> uid,
                            updatedDeviceKeys |-> updatedDeviceKeys, ePubIndex |-> ePubIndex,
                            serverHalves |-> r.serverHalves, err |-> r.err, splits |-> r.n]
                 /\ UNCHANGED <<extra, md, mdServer>>

DoFillInUserInfos ==
    /\ ret = NoCall
    /\ \E updatedUserKeys \in UserDevicePublicKeys, newIndex \in FillIndices :
         \E crypto \in MapCryptos(CountNewDevices(udkimV3, updatedUserKeys, DOMAIN updatedUserKeys)),
            uorder \in Orders(DOMAIN updatedUserKeys), dorders \in DeviceOrders(updatedUserKeys) :
             \E r \in {FillInUserInfos(udkimV3,
                           [crypto |-> crypto, uid |-> "", tlfCryptKey |-> GenCryptKey,
                            ePrivKey |-> EPrivKeyAt[newIndex], ePubIndex |-> newIndex],
                           updatedUserKeys, uorder, dorders)} :
                 /\ udkimV3' = r.udkimV3
                 /\ ret' = [op |-> "FillInUserInfos", pre |-> udkimV3,
                            updatedUserKeys |-> updatedUserKeys, newIndex |-> newIndex,
                            serverHalves |-> r.serverHalves, err |-> r.err, splits |-> r.n]
                 /\ UNCHANGED <<extra, md, mdServer>>

DoRemoveDevicesNotIn ==
    /\ ret = NoCall
    /\ \E updatedUserKeys \in UserDevicePublicKeys, uorder \in Orders(DOMAIN udkimV3) :
         \E r \in {RemoveDevicesNotIn(udkimV3, updatedUserKeys, uorder)} :
             /\ udkimV3' = r.udkimV3
             /\ ret' = [op |-> "RemoveDevicesNotIn", pre |-> udkimV3,
                        updatedUserKeys |-> updatedUserKeys, removalInfo |-> r.removalInfo]
             /\ UNCHANGED <<extra, md, mdServer>>

\* The caller takes the results of the last call; the map stays as it is.
TakeResult ==
    /\ ret # NoCall
    /\ ret' = NoCall
    /\ UNCHANGED <<udkimV3, extra, md, mdServer>>

Next == DoFillInDeviceInfos \/ DoFillInUserInfos \/ DoRemoveDevicesNotIn \/ TakeResult

Spec == Init /\ [][Next]_vars

-----------------------------------------------------------------------------
(* Properties of RemoveDevicesNotIn, checked on the state a call returns in  *)
(* (ret.pre is the receiver before the call, udkimV3 the receiver after).    *)

\* The devices of user u that the call had to remove: those M[u] does not
\* map to true.
NotAllowedDevices(pre, M, u) == {k \in DOMAIN pre[u] : ~(k \in DOMAIN M[u] /\ M[u][k])}

\* C1: after RemoveDevicesNotIn(M), every user that was in the map and is no
\* key of M has no entry in the map, and the removal info has an entry for it
\* with UserRemoved = true whose DeviceServerHalfIDs maps each device the user
\* had to exactly that device's ServerHalfID (an empty mapping for a user
\* that had no devices).
C1_AbsentUserRemoved ==
    ret.op = "RemoveDevicesNotIn" =>
        \A u \in (DOMAIN ret.pre) \ DOMAIN ret.updatedUserKeys :
            /\ u \notin DOMAIN udkimV3
            /\ u \in DOMAIN ret.removalInfo
            /\ ret.removalInfo[u].UserRemoved = TRUE
            /\ ret.removalInfo[u].DeviceServerHalfIDs = [k \in DOMAIN ret.pre[u] |-> <<ret.pre[u][k].ServerHalfID>>]

\* A call that removed an absent user with devices and an absent user without.
C1_Witness ==
    /\ ret.op = "RemoveDevicesNotIn"
    /\ \E u \in (DOMAIN ret.pre) \ DOMAIN ret.updatedUserKeys : DOMAIN ret.pre[u] # {}
    /\ \E u \in (DOMAIN ret.pre) \ DOMAIN ret.updatedUserKeys : DOMAIN ret.pre[u] = {}

\* C2: after RemoveDevicesNotIn(M), every user u of the map that is a key of M
\* still has its entry; the entry holds exactly the devices M[u] allows, each
\* with the info it had; and if a device was removed, u is reported with
\* UserRemoved = false and exactly the removed devices' ServerHalfIDs.
C2_PresentUserDevicesRemoved ==
    ret.op = "RemoveDevicesNotIn" =>
        \A u \in (DOMAIN ret.pre) \cap DOMAIN ret.updatedUserKeys :
            LET removed == NotAllowedDevices(ret.pre, ret.updatedUserKeys, u)
            IN  /\ u \in DOMAIN udkimV3
                /\ DOMAIN udkimV3[u] = (DOMAIN ret.pre[u]) \ removed
                /\ \A k \in DOMAIN udkimV3[u] : udkimV3[u][k] = ret.pre[u][k]
                /\ removed # {} =>
                     /\ u \in DOMAIN ret.removalInfo
                     /\ ret.removalInfo[u].UserRemoved = FALSE
                     /\ ret.removalInfo[u].DeviceServerHalfIDs = [k \in removed |-> <<ret.pre[u][k].ServerHalfID>>]

\* A call that removed one of two devices of a user, kept the other, and
\* removed the last device of another user (one listed in M with value false).
C2_Witness ==
    /\ ret.op = "RemoveDevicesNotIn"
    /\ \E u \in (DOMAIN ret.pre) \cap DOMAIN ret.updatedUserKeys :
         /\ NotAllowedDevices(ret.pre, ret.updatedUserKeys, u) # {}
         /\ DOMAIN udkimV3[u] # {}
    /\ \E u \in (DOMAIN ret.pre) \cap DOMAIN ret.updatedUserKeys :
         /\ \E k \in DOMAIN ret.updatedUserKeys[u] : k \in DOMAIN ret.pre[u] /\ ~ret.updatedUserKeys[u][k]
         /\ DOMAIN ret.pre[u] # {}
         /\ DOMAIN udkimV3[u] = {}

\* C3: RemoveDevicesNotIn(M) returns a removal entry for u exactly when u was
\* in the map and either is no key of M or lost a device; a user that is a key
\* of M and lost no device has no removal entry and its map entry is as before.
C3_RemovalEntryIff ==
    ret.op = "RemoveDevicesNotIn" =>
        /\ \A u \in Users :
             u \in DOMAIN ret.removalInfo <=>
                 /\ u \in DOMAIN ret.pre
                 /\ \/ u \notin DOMAIN ret.updatedUserKeys
                    \/ NotAllowedDevices(ret.pre, ret.updatedUserKeys, u) # {}
        /\ DOMAIN ret.removalInfo \subseteq Users
        /\ \A u \in (DOMAIN ret.pre) \cap DOMAIN ret.updatedUserKeys :
             NotAllowedDevices(ret.pre, ret.updatedUserKeys, u) = {} =>
                 /\ u \notin DOMAIN ret.removalInfo
                 /\ u \in DOMAIN udkimV3
                 /\ udkimV3[u] = ret.pre[u]

\* A call that reported one user and left alone another whose devices are all
\* allowed, the receiver also holding or not a user without devices.
C3_Witness ==
    /\ ret.op = "RemoveDevicesNotIn"
    /\ DOMAIN ret.removalInfo # {}
    /\ \E u \in (DOMAIN ret.pre) \cap DOMAIN ret.updatedUserKeys :
         /\ DOMAIN ret.pre[u] # {}
         /\ NotAllowedDevices(ret.pre, ret.updatedUserKeys, u) = {}
         /\ u \notin DOMAIN ret.removalInfo


-----------------------------------------------------------------------------
(* Properties of FillInDeviceInfos and FillInUserInfos, checked on the state *)
(* a call returns in.                                                        *)

\* C4: after a successful FillInDeviceInfos on u's device map with target set
\* T, the map holds the devices it had and those of T; each device it had
\* keeps its info; one key split was made per device of T it did not have;
\* the returned server halves are keyed by exactly those devices; and the
\* other users' device maps are as before.
C4_FillInDeviceInfosSuccess ==
    (ret.op = "FillInDeviceInfos" /\ ret.err = Nil) =>
        LET before == ret.pre[ret.uid]
            after == udkimV3[ret.uid]
            new == (DOMAIN ret.updatedDeviceKeys) \ DOMAIN before
        IN  /\ DOMAIN after = (DOMAIN before) \cup DOMAIN ret.updatedDeviceKeys
            /\ \A k \in DOMAIN before : after[k] = before[k]
            /\ \A k \in new : after[k].EPubKeyIndex = ret.ePubIndex
            /\ ret.splits = Cardinality(new)
            /\ DOMAIN ret.serverHalves = new
            /\ DOMAIN udkimV3 = DOMAIN ret.pre
            /\ \A u \in (DOMAIN ret.pre) \ {ret.uid} : udkimV3[u] = ret.pre[u]

\* A successful call whose target set names a device the map had and one it
\* had not.
C4_Witness ==
    /\ ret.op = "FillInDeviceInfos"
    /\ ret.err = Nil
    /\ (DOMAIN ret.updatedDeviceKeys) \ DOMAIN ret.pre[ret.uid] # {}
    /\ (DOMAIN ret.updatedDeviceKeys) \cap DOMAIN ret.pre[ret.uid] # {}

\* The arguments of the second call of C5.
SecondCallCryptos == {c \in MapCryptos(1) : c.seed = 0 /\ c.err = "errA"}

SecondCallArgs ==
    [crypto : SecondCallCryptos, uid : Users, tlfCryptKey : KeyVals, ePrivKey : EPrivKeys, ePubIndex : Indices]

\* C5: in the state a successful FillInDeviceInfos with target set T returns
\* in, a second call with T, under any content key, ephemeral key, index and
\* loop order, returns the device map as it is, makes no key split and
\* returns no server halves and no error.
C5_FillInDeviceInfosIdempotent ==
    (ret.op = "FillInDeviceInfos" /\ ret.err = Nil) =>
        \A a \in SecondCallArgs, order \in Orders(DOMAIN ret.updatedDeviceKeys) :
            a.uid = ret.uid =>
                LET r == FillInDeviceInfos(udkimV3[ret.uid], a, 0, ret.updatedDeviceKeys, order)
                IN  /\ r.dkimV3 = udkimV3[ret.uid]
                    /\ r.n = 0
                    /\ r.serverHalves = EmptyMap
                    /\ r.err = Nil

\* A successful first call that made two key splits.
C5_Witness ==
    /\ ret.op = "FillInDeviceInfos"
    /\ ret.err = Nil
    /\ ret.splits = 2
    /\ Cardinality(DOMAIN ret.serverHalves) = 2

\* C6: after a successful FillInUserInfos(M), the map's users are those it had
\* and those of M; each user of M has the devices it had and those of M[u]
\* (an empty device map for a new user M lists no device for); every entry
\* the map had is as before; users M does not name are as before; and the
\* returned server halves name a user only if a device entry was created for
\* it, and then exactly the devices created.
C6_FillInUserInfosSuccess ==
    (ret.op = "FillInUserInfos" /\ ret.err = Nil) =>
        LET M == ret.updatedUserKeys
            had(u) == IF u \in DOMAIN ret.pre THEN DOMAIN ret.pre[u] ELSE {}
        IN  /\ DOMAIN udkimV3 = (DOMAIN ret.pre) \cup DOMAIN M
            /\ \A u \in DOMAIN M :
                 /\ u \in DOMAIN udkimV3
                 /\ DOMAIN udkimV3[u] = had(u) \cup DOMAIN M[u]
                 /\ \A k \in had(u) : udkimV3[u][k] = ret.pre[u][k]
                 /\ \A k \in (DOMAIN M[u]) \ had(u) : udkimV3[u][k].EPubKeyIndex = ret.newIndex
            /\ \A u \in (DOMAIN ret.pre) \ DOMAIN M : udkimV3[u] = ret.pre[u]
            /\ \A u \in DOMAIN ret.serverHalves :
                 /\ u \in DOMAIN M
                 /\ (DOMAIN M[u]) \ had(u) # {}
                 /\ DOMAIN ret.serverHalves[u] = (DOMAIN M[u]) \ had(u)

\* A successful call that created a user without devices, added a device to a
\* user the map had, and returned server halves.
C6_Witness ==
    /\ ret.op = "FillInUserInfos"
    /\ ret.err = Nil
    /\ \E u \in (DOMAIN ret.updatedUserKeys) \ DOMAIN ret.pre : udkimV3[u] = EmptyMap
    /\ \E u \in (DOMAIN ret.updatedUserKeys) \cap DOMAIN ret.pre :
         /\ DOMAIN ret.pre[u] # {}
         /\ u \in DOMAIN ret.serverHalves

-----------------------------------------------------------------------------
(* SpecSplit: SplitTLFCryptKey on every input of the bounded sets.           *)

DoSplitTLFCryptKey ==
    /\ ret = NoCall
    /\ \E crypto \in Cryptos(1), uid \in Users, tlfCryptKey \in KeyVals, ePrivKey \in EPrivKeys,
          ePubIndex \in Indices, pubKey \in Devices :
         \E r \in {SplitTLFCryptKey(crypto, 1, uid, tlfCryptKey, ePrivKey, ePubIndex, pubKey)} :
             ret' = [op |-> "SplitTLFCryptKey", crypto |-> crypto, uid |-> uid, tlfCryptKey |-> tlfCryptKey,
                     ePrivKey |-> ePrivKey, ePubIndex |-> ePubIndex, pubKey |-> pubKey,
                     info |-> r.info, serverHalf |-> r.serverHalf, err |-> r.err, calls |-> r.calls]
    /\ UNCHANGED <<udkimV3, extra, md, mdServer>>

NextSplit == DoSplitTLFCryptKey \/ TakeResult

SpecSplit == Init /\ [][NextSplit]_vars

\* C7: a successful SplitTLFCryptKey returns a server half and an encrypted
\* client half such that decrypting the client half with the device's private
\* key and the ephemeral public key gives the mask of the server half with
\* the content key, and unmasking it with the server half gives the content
\* key back.
C7_SplitRoundTrip ==
    (ret.op = "SplitTLFCryptKey" /\ ret.err = Nil) =>
        LET d == DecryptTLFCryptKeyClientHalf(DevicePrivateKey(ret.pubKey), EPublicKey(ret.ePrivKey), ret.info.ClientHalf)
        IN  /\ d.err = Nil
            /\ d.val = MaskTLFCryptKey(ret.serverHalf, ret.tlfCryptKey)
            /\ UnmaskTLFCryptKey(ret.serverHalf, d.val) = ret.tlfCryptKey

\* A successful split of a key that differs from its client half and from
\* the server half.
C7_Witness ==
    /\ ret.op = "SplitTLFCryptKey"
    /\ ret.err = Nil
    /\ ret.serverHalf # 0
    /\ ret.tlfCryptKey # ret.serverHalf
    /\ ret.info.ClientHalf.Data[3] # ret.tlfCryptKey

\* The cryptoPure methods in the order SplitTLFCryptKey is to call them.
SplitCallOrder == <<"MakeRandomTLFCryptKeyServerHalf", "EncryptTLFCryptKeyClientHalf", "GetTLFCryptKeyServerHalfID">>

\* C8: the methods SplitTLFCryptKey called are an initial part of
\* MakeRandomTLFCryptKeyServerHalf, EncryptTLFCryptKeyClientHalf,
\* GetTLFCryptKeyServerHalfID; when one of them fails, the split returns its
\* error with a zero TLFCryptKeyInfo and a zero server half, and the failing
\* method is the last one called; when none fails all three were called.
C8_SplitFailurePropagated ==
    ret.op = "SplitTLFCryptKey" =>
        /\ \E i \in 1 .. 3 : ret.calls = SubSeq(SplitCallOrder, 1, i)
        /\ ret.crypto.failAt = 1 =>
             /\ ret.err = ret.crypto.err
             /\ ret.info = ZeroTLFCryptKeyInfo
             /\ ret.serverHalf = ZeroServerHalf
             /\ ret.calls[Len(ret.calls)] = ret.crypto.failIn
        /\ ret.crypto.failAt = 0 =>
             /\ ret.err = Nil
             /\ ret.calls = SplitCallOrder

\* A split whose encryption failed, with a crypto whose random server half
\* is not zero.
C8_Witness ==
    /\ ret.op = "SplitTLFCryptKey"
    /\ ret.crypto.failAt = 1
    /\ ret.crypto.failIn = "EncryptTLFCryptKeyClientHalf"
    /\ ret.crypto.seed # 0
    /\ ret.err = "errB"

-----------------------------------------------------------------------------
(* ExtraMetadataV3 (kbfsmd/extra_metadata_v3.go).  The key bundle types and  *)
(* the codec are not among the source files: a bundle is a record of the     *)
(* fields the tests construct it with, and DeepCopy is the codec's encoding  *)
(* (fields under their codec tags) followed by its decoding.                 *)

\* Key maps for the bundles of SpecExtra.
SampleInfo(u, k) == [ClientHalf |-> [Version |-> EncryptionSecretbox, Data |-> <<"e0", k, 0>>, Nonce |-> <<"nonce">>],
                     ServerHalfID |-> [ID |-> <<u, k, 0>>], EPubKeyIndex |-> 0]

SampleKeys == {EmptyMap,
               [u \in {"u1"} |-> [k \in {"k1"} |-> SampleInfo(u, k)]],
               [u \in Users |-> [k \in DevicesOf[u] |-> SampleInfo(u, k)]]}

\* The unknown fields a bundle decoded from a newer format carries.
UnknownFieldSets == {EmptyMap, [f \in {"futureField"} |-> "futureValue"]}

TLFWriterKeyBundles ==
    [Keys : SampleKeys, TLFPublicKey : {"tlfPub"}, TLFEphemeralPublicKeys : {<<EPublicKey("e0")>>},
     EncryptedHistoricTLFCryptKeys : {ZeroEncryptedData}, Unknown : UnknownFieldSets]

TLFReaderKeyBundles ==
    [Keys : SampleKeys, TLFEphemeralPublicKeys : {<<>>, <<EPublicKey("e1")>>}, Unknown : UnknownFieldSets]

\* A codec either works or fails to copy one kind of bundle.
Codecs == [failOn : {"none", "writer", "reader"}, err : {"errCodec"}]

EncodeWriterKeyBundle(wkb) ==
    [wKeys |-> wkb.Keys, pubKey |-> wkb.TLFPublicKey, ePubKey |-> wkb.TLFEphemeralPublicKeys,
     oldKeys |-> wkb.EncryptedHistoricTLFCryptKeys, unknown |-> wkb.Unknown]

DecodeWriterKeyBundle(enc) ==
    [Keys |-> enc.wKeys, TLFPublicKey |-> enc.pubKey, TLFEphemeralPublicKeys |-> enc.ePubKey,
     EncryptedHistoricTLFCryptKeys |-> enc.oldKeys, Unknown |-> enc.unknown]

EncodeReaderKeyBundle(rkb) ==
    [rKeys |-> rkb.Keys, rEPubKey |-> rkb.TLFEphemeralPublicKeys, unknown |-> rkb.Unknown]

DecodeReaderKeyBundle(enc) ==
    [Keys |-> enc.rKeys, TLFEphemeralPublicKeys |-> enc.rEPubKey, Unknown |-> enc.unknown]

\* TLFWriterKeyBundleV3.DeepCopy and TLFReaderKeyBundleV3.DeepCopy.
WkbDeepCopy(codec, wkb) ==
    IF codec.failOn = "writer" THEN [val |-> EmptyMap, err |-> codec.err]
    ELSE [val |-> DecodeWriterKeyBundle(EncodeWriterKeyBundle(wkb)), err |-> Nil]

RkbDeepCopy(codec, rkb) ==
    IF codec.failOn = "reader" THEN [val |-> EmptyMap, err |-> codec.err]
    ELSE [val |-> DecodeReaderKeyBundle(EncodeReaderKeyBundle(rkb)), err |-> Nil]

\* Go's nil ExtraMetadata, returned with an error.
NilExtraMetadata == [nil |-> TRUE]

NewExtraMetadataV3(wkb, rkb, wkbNew, rkbNew) == [Wkb |-> wkb, Rkb |-> rkb, WkbNew |-> wkbNew, RkbNew |-> rkbNew]

\* A variant of UpdateNew that stores the arguments.
UpdateNewAssigns(e, wkbNew, rkbNew) == [e EXCEPT !.WkbNew = wkbNew, !.RkbNew = rkbNew]

\* extra.UpdateNew(wkbNew, rkbNew): the receiver afterwards.
UpdateNew(e, wkbNew, rkbNew) == [e EXCEPT !.WkbNew = e.WkbNew \/ wkbNew, !.RkbNew = e.RkbNew \/ rkbNew]

\* extra.DeepCopy(codec).
DeepCopy(e, codec) ==
    LET wkb == WkbDeepCopy(codec, e.Wkb)
        rkb == RkbDeepCopy(codec, e.Rkb)
    IN  IF wkb.err # Nil THEN [val |-> NilExtraMetadata, err |-> wkb.err]
        ELSE IF rkb.err # Nil THEN [val |-> NilExtraMetadata, err |-> rkb.err]
        ELSE [val |-> NewExtraMetadataV3(wkb.val, rkb.val, e.WkbNew, e.RkbNew), err |-> Nil]

\* A variant of MakeSuccessorCopy that hands the receiver's flags on.
MakeSuccessorCopyKeepsNew(e, codec) ==
    LET wkb == WkbDeepCopy(codec, e.Wkb)
        rkb == RkbDeepCopy(codec, e.Rkb)
    IN  IF wkb.err # Nil THEN [val |-> NilExtraMetadata, err |-> wkb.err]
        ELSE IF rkb.err # Nil THEN [val |-> NilExtraMetadata, err |-> rkb.err]
        ELSE [val |-> NewExtraMetadataV3(wkb.val, rkb.val, e.WkbNew, e.RkbNew), err |-> Nil]

\* extra.MakeSuccessorCopy(codec).
MakeSuccessorCopy(e, codec) ==
    LET wkb == WkbDeepCopy(codec, e.Wkb)
        rkb == RkbDeepCopy(codec, e.Rkb)
    IN  IF wkb.err # Nil THEN [val |-> NilExtraMetadata, err |-> wkb.err]
        ELSE IF rkb.err # Nil THEN [val |-> NilExtraMetadata, err |-> rkb.err]
        ELSE [val |-> NewExtraMetadataV3(wkb.val, rkb.val, FALSE, FALSE), err |-> Nil]

\* extra.GetWriterKeyBundle() and extra.GetReaderKeyBundle().
GetWriterKeyBundle(e) == e.Wkb

GetReaderKeyBundle(e) == e.Rkb

(* SpecExtra: an ExtraMetadataV3 made by NewExtraMetadataV3, then under      *)
(* UpdateNew, DeepCopy and MakeSuccessorCopy.                                *)

InitExtra ==
    /\ udkimV3 = EmptyMap
    /\ \E wkb \in TLFWriterKeyBundles, rkb \in TLFReaderKeyBundles, wkbNew \in BOOLEAN, rkbNew \in BOOLEAN :
          extra = NewExtraMetadataV3(wkb, rkb, wkbNew, rkbNew)
    /\ md = NoMD
    /\ mdServer = NoServer
    /\ ret = NoCall

DoUpdateNew ==
    /\ ret = NoCall
    /\ \E wkbNew \in BOOLEAN, rkbNew \in BOOLEAN :
         /\ extra' = UpdateNew(extra, wkbNew, rkbNew)
         /\ ret' = [op |-> "UpdateNew", pre |-> extra, wkbNew |-> wkbNew, rkbNew |-> rkbNew]
    /\ UNCHANGED <<udkimV3, md, mdServer>>

DoDeepCopy ==
    /\ ret = NoCall
    /\ \E codec \in Codecs :
         \E r \in {DeepCopy(extra, codec)} :
             ret' = [op |-> "DeepCopy", pre |-> extra, codec |-> codec, val |-> r.val, err |-> r.err]
    /\ UNCHANGED <<udkimV3, extra, md, mdServer>>

DoMakeSuccessorCopy ==
    /\ ret = NoCall
    /\ \E codec \in Codecs :
         \E r \in {MakeSuccessorCopy(extra, codec)} :
             ret' = [op |-> "MakeSuccessorCopy", pre |-> extra, codec |-> codec, val |-> r.val, err |-> r.err]
    /\ UNCHANGED <<udkimV3, extra, md, mdServer>>

NextExtra == DoUpdateNew \/ DoDeepCopy \/ DoMakeSuccessorCopy \/ TakeResult

SpecExtra == InitExtra /\ [][NextExtra]_vars

\* C9: a successful MakeSuccessorCopy returns an ExtraMetadataV3 whose writer
\* and reader bundles equal the receiver's and whose WkbNew and RkbNew are
\* both false, and the receiver is as it was before the call.
C9_SuccessorCopyClearsNew ==
    (ret.op = "MakeSuccessorCopy" /\ ret.err = Nil) =>
        /\ GetWriterKeyBundle(ret.val) = GetWriterKeyBundle(ret.pre)
        /\ GetReaderKeyBundle(ret.val) = GetReaderKeyBundle(ret.pre)
        /\ ret.val.WkbNew = FALSE
        /\ ret.val.RkbNew = FALSE
        /\ extra = ret.pre

\* A successful copy of an ExtraMetadataV3 with both flags set and keys in
\* both bundles.
C9_Witness ==
    /\ ret.op = "MakeSuccessorCopy"
    /\ ret.err = Nil
    /\ ret.pre.WkbNew
    /\ ret.pre.RkbNew
    /\ ret.pre.Wkb.Keys # EmptyMap
    /\ ret.pre.Rkb.Keys # EmptyMap
    /\ ret.pre.Wkb.Unknown # EmptyMap

-----------------------------------------------------------------------------
(* libkbfs.MakeInitialBareRootMetadata.  The metadata version constants and  *)
(* the two constructors it dispatches to are kbfsmd's and libkbfs's, not     *)
(* among the source files.                                                   *)

FirstValidMetadataVer == 0

SegregatedKeyBundlesVer == 3

MetadataVers == (FirstValidMetadataVer - VerSlack) .. (SegregatedKeyBundlesVer + VerSlack)

TlfIDs == {"tlf1", "tlf2", "tlf3", "tlf4"}

Handles == {"h1", "h2", "h3", "h4"}

MakeInitialBareRootMetadataV2(tlfID, h) ==
    [outcome |-> "returned", md |-> [format |-> "BareRootMetadataV2", tlfID |-> tlfID, handle |-> h], err |-> Nil]

MakeInitialBareRootMetadataV3(tlfID, h) ==
    [outcome |-> "returned", md |-> [format |-> "BareRootMetadataV3", tlfID |-> tlfID, handle |-> h], err |-> Nil]

\* Go's nil MutableBareRootMetadata.
NilMetadata == [format |-> "nil"]

MakeInitialBareRootMetadata(ver, tlfID, h) ==
    IF ver < FirstValidMetadataVer
    THEN [outcome |-> "returned", md |-> NilMetadata,
          err |-> [type |-> "InvalidMetadataVersionError", TlfID |-> tlfID, MetadataVer |-> ver]]
    ELSE IF ver > SegregatedKeyBundlesVer
    THEN [outcome |-> "panic", md |-> NilMetadata, err |-> "Invalid metadata version"]
    ELSE IF ver < SegregatedKeyBundlesVer
    THEN MakeInitialBareRootMetadataV2(tlfID, h)
    ELSE MakeInitialBareRootMetadataV3(tlfID, h)

DoMakeInitialBareRootMetadata ==
    /\ ret = NoCall
    /\ \E ver \in MetadataVers, tlfID \in TlfIDs, h \in Handles :
         \E r \in {MakeInitialBareRootMetadata(ver, tlfID, h)} :
             ret' = [op |-> "MakeInitialBareRootMetadata", ver |-> ver, tlfID |-> tlfID, h |-> h,
                     outcome |-> r.outcome, md |-> r.md, err |-> r.err]
    /\ UNCHANGED <<udkimV3, extra, md, mdServer>>

NextMD == DoMakeInitialBareRootMetadata \/ TakeResult

SpecMD == Init /\ [][NextMD]_vars

\* C10: MakeInitialBareRootMetadata called with a version below
\* FirstValidMetadataVer or above SegregatedKeyBundlesVer returns an
\* InvalidMetadataVersionError and no metadata.
C10_VersionGateTyped ==
    (/\ ret.op = "MakeInitialBareRootMetadata"
     /\ (ret.ver < FirstValidMetadataVer \/ ret.ver > SegregatedKeyBundlesVer)) =>
        /\ ret.outcome = "returned"
        /\ ret.md = NilMetadata
        /\ ret.err = [type |-> "InvalidMetadataVersionError", TlfID |-> ret.tlfID, MetadataVer |-> ret.ver]

-----------------------------------------------------------------------------
(* libkbfs.writerUDKIMV2ToV3 (libkbfs/key_bundle_v3.go).  A V2 map is keyed  *)
(* by user and by the device key's KID; the V3 map by the CryptPublicKey     *)
(* made from the KID.  The copy of an info goes through the codec.           *)

\* The KID of a device key, and kbfscrypto.MakeCryptPublicKey(kid).
KIDOf(k) == <<"kid", k>>

MakeCryptPublicKey(kid) == kid[2]

\* A codec that works or fails to copy a TLFCryptKeyInfo.
InfoCodecs == [failOn : {"none", "info"}, err : {"errCodec"}]

\* kbfscodec.Update(codec, &infoCopy, info): the info encoded under its codec
\* tags and decoded again.
EncodeTLFCryptKeyInfo(info) == [c |-> info.ClientHalf, s |-> info.ServerHalfID, i |-> info.EPubKeyIndex]

DecodeTLFCryptKeyInfo(enc) == [ClientHalf |-> enc.c, ServerHalfID |-> enc.s, EPubKeyIndex |-> enc.i]

UpdateTLFCryptKeyInfo(codec, info) ==
    IF codec.failOn = "info" THEN [val |-> ZeroTLFCryptKeyInfo, err |-> codec.err]
    ELSE [val |-> DecodeTLFCryptKeyInfo(EncodeTLFCryptKeyInfo(info)), err |-> Nil]

\* A variant of the inner loop body below that takes an index equal to
\* ePubKeyCount as valid.
WriterV2ToV3DeviceStepOffByOne(st, codec, ePubKeyCount, uid, dkimV2, kid) ==
    IF st.err # Nil THEN st
    ELSE LET info == dkimV2[kid]
             index == info.EPubKeyIndex
             copy == UpdateTLFCryptKeyInfo(codec, info)
         IN  IF index < 0
             THEN [st EXCEPT !.err = "Writer key with index not handled yet", !.errArgs = <<index, uid, kid>>]
             ELSE IF index > ePubKeyCount
             THEN [st EXCEPT !.err = "Invalid writer key index", !.errArgs = <<index, uid, kid>>]
             ELSE IF copy.err # Nil
             THEN [st EXCEPT !.err = copy.err]
             ELSE [st EXCEPT !.dkimV3 = MapSet(st.dkimV3, MakeCryptPublicKey(kid), copy.val)]

\* One iteration of the inner range loop, for device kid of user uid.  The
\* loop state st holds the dkimV3 built so far and the error returned with
\* (its message and the values formatted into it).
WriterV2ToV3DeviceStep(st, codec, ePubKeyCount, uid, dkimV2, kid) ==
    IF st.err # Nil THEN st
    ELSE LET info == dkimV2[kid]
             index == info.EPubKeyIndex
             copy == UpdateTLFCryptKeyInfo(codec, info)
         IN  IF index < 0
             THEN [st EXCEPT !.err = "Writer key with index not handled yet", !.errArgs = <<index, uid, kid>>]
             ELSE IF index >= ePubKeyCount
             THEN [st EXCEPT !.err = "Invalid writer key index", !.errArgs = <<index, uid, kid>>]
             ELSE IF copy.err # Nil
             THEN [st EXCEPT !.err = copy.err]
             ELSE [st EXCEPT !.dkimV3 = MapSet(st.dkimV3, MakeCryptPublicKey(kid), copy.val)]

RECURSIVE WriterV2ToV3DeviceLoop(_, _, _, _, _, _, _)
WriterV2ToV3DeviceLoop(st, codec, ePubKeyCount, uid, dkimV2, korder, i) ==
    IF i > Len(korder) THEN st
    ELSE WriterV2ToV3DeviceLoop(WriterV2ToV3DeviceStep(st, codec, ePubKeyCount, uid, dkimV2, korder[i]),
                                codec, ePubKeyCount, uid, dkimV2, korder, i + 1)

\* One iteration of the outer range loop, for user uid.  The loop state st
\* holds the udkimV3 built so far and the error returned with.
WriterV2ToV3UserStep(st, codec, udkimV2, ePubKeyCount, korders, uid) ==
    IF st.err # Nil THEN st
    ELSE LET r == WriterV2ToV3DeviceLoop([dkimV3 |-> EmptyMap, err |-> Nil, errArgs |-> <<>>], codec, ePubKeyCount, uid,
                                         udkimV2[uid], korders[uid], 1)
         IN  IF r.err # Nil
             THEN [st EXCEPT !.err = r.err, !.errArgs = r.errArgs]
             ELSE [st EXCEPT !.udkimV3 = MapSet(st.udkimV3, uid, r.dkimV3)]

RECURSIVE WriterV2ToV3UserLoop(_, _, _, _, _, _, _)
WriterV2ToV3UserLoop(st, codec, udkimV2, ePubKeyCount, korders, uorder, i) ==
    IF i > Len(uorder) THEN st
    ELSE WriterV2ToV3UserLoop(WriterV2ToV3UserStep(st, codec, udkimV2, ePubKeyCount, korders, uorder[i]),
                              codec, udkimV2, ePubKeyCount, korders, uorder, i + 1)

\* writerUDKIMV2ToV3(codec, udkimV2, ePubKeyCount): nil and the error, or the
\* V3 map and nil.
WriterUDKIMV2ToV3(codec, udkimV2, ePubKeyCount, uorder, korders) ==
    LET r == WriterV2ToV3UserLoop([udkimV3 |-> EmptyMap, err |-> Nil, errArgs |-> <<>>], codec, udkimV2, ePubKeyCount, korders, uorder, 1)
    IN  IF r.err # Nil THEN [val |-> EmptyMap, err |-> r.err, errArgs |-> r.errArgs]
        ELSE [val |-> r.udkimV3, err |-> Nil, errArgs |-> <<>>]

\* V2 device maps of user u: any of u's devices, by KID, each entry with any
\* index (a V2 entry may carry a negative one).
DeviceKeyInfoMapsV2(u) ==
    UNION {[{KIDOf(k) : k \in S} -> Indices] : S \in SUBSET DevicesOf[u]}

V2Info(u, kid, index) == [SampleInfo(u, MakeCryptPublicKey(kid)) EXCEPT !.EPubKeyIndex = index]

RECURSIVE UserDeviceKeyInfoMapsV2Over(_)
UserDeviceKeyInfoMapsV2Over(us) ==
    IF us = {} THEN {EmptyMap}
    ELSE LET u == CHOOSE x \in us : TRUE
         IN  {MapSet(m, u, [kid \in DOMAIN d |-> V2Info(u, kid, d[kid])]) :
                  m \in UserDeviceKeyInfoMapsV2Over(us \ {u}), d \in DeviceKeyInfoMapsV2(u)}

UserDeviceKeyInfoMapsV2 == UNION {UserDeviceKeyInfoMapsV2Over(us) : us \in SUBSET Users}

\* The orders of the inner loops: one per user of udkimV2.
RECURSIVE KIDOrdersOver(_, _)
KIDOrdersOver(m, us) ==
    IF us = {} THEN {EmptyMap}
    ELSE LET u == CHOOSE x \in us : TRUE
         IN  {MapSet(d, u, o) : d \in KIDOrdersOver(m, us \ {u}), o \in LoopOrders(DOMAIN m[u])}

(* SpecV2ToV3: writerUDKIMV2ToV3 on every V2 map of the bounded sets.       *)

DoWriterUDKIMV2ToV3 ==
    /\ ret = NoCall
    /\ \E codec \in InfoCodecs, udkimV2 \in UserDeviceKeyInfoMapsV2, ePubKeyCount \in 0 .. MaxIndex :
         \E uorder \in Orders(DOMAIN udkimV2), korders \in KIDOrdersOver(udkimV2, DOMAIN udkimV2) :
             \E r \in {WriterUDKIMV2ToV3(codec, udkimV2, ePubKeyCount, uorder, korders)} :
                 ret' = [op |-> "writerUDKIMV2ToV3", codec |-> codec, udkimV2 |-> udkimV2,
                         ePubKeyCount |-> ePubKeyCount, val |-> r.val, err |-> r.err, errArgs |-> r.errArgs]
    /\ UNCHANGED <<udkimV3, extra, md, mdServer>>

NextV2ToV3 == DoWriterUDKIMV2ToV3 \/ TakeResult

SpecV2ToV3 == Init /\ [][NextV2ToV3]_vars

\* The device entries of a V2 map, as pairs of user and KID.
V2Entries(udkimV2) == UNION {{<<u, kid>> : kid \in DOMAIN udkimV2[u]} : u \in DOMAIN udkimV2}

\* C11: writerUDKIMV2ToV3 returns an error (and no map) when a device entry
\* of the V2 map has an index below 0 or not below ePubKeyCount; when it
\* returns no error the V3 map has the users of the V2 map, for each user one
\* entry per V2 device entry (under the key made from its KID, with the V2
\* info), and every index is at least 0 and below ePubKeyCount.
C11_WriterV2ToV3IndexChecked ==
    ret.op = "writerUDKIMV2ToV3" =>
        /\ (\E e \in V2Entries(ret.udkimV2) :
                \/ ret.udkimV2[e[1]][e[2]].EPubKeyIndex < 0
                \/ ret.udkimV2[e[1]][e[2]].EPubKeyIndex >= ret.ePubKeyCount) =>
               (ret.err # Nil /\ ret.val = EmptyMap)
        /\ ret.err = Nil =>
             /\ DOMAIN ret.val = DOMAIN ret.udkimV2
             /\ \A u \in DOMAIN ret.udkimV2 :
                  /\ DOMAIN ret.val[u] = {MakeCryptPublicKey(kid) : kid \in DOMAIN ret.udkimV2[u]}
                  /\ Cardinality(DOMAIN ret.val[u]) = Cardinality(DOMAIN ret.udkimV2[u])
                  /\ \A kid \in DOMAIN ret.udkimV2[u] :
                       /\ ret.val[u][MakeCryptPublicKey(kid)] = ret.udkimV2[u][kid]
                       /\ ret.val[u][MakeCryptPublicKey(kid)].EPubKeyIndex >= 0
                       /\ ret.val[u][MakeCryptPublicKey(kid)].EPubKeyIndex < ret.ePubKeyCount

\* A conversion that succeeded on a map with two users and three devices,
\* one of them at the largest valid index.
C11_Witness ==
    /\ ret.op = "writerUDKIMV2ToV3"
    /\ ret.err = Nil
    /\ Cardinality(V2Entries(ret.udkimV2)) = 3
    /\ \E u \in DOMAIN ret.val : \E k \in DOMAIN ret.val[u] : ret.val[u][k].EPubKeyIndex = ret.ePubKeyCount - 1

-----------------------------------------------------------------------------
(* SpecIndex: the key map of a bundle with MaxIndex ephemeral public keys,   *)
(* under FillInUserInfos called with any index and RemoveDevicesNotIn.  The  *)
(* crypto works.                                                             *)

\* The length of the bundle's TLFEphemeralPublicKeys.
EPubKeyCount == MaxIndex

\* An index below the valid ones, a valid one, and the first above them.
ProbeIndices == {-1, 0, EPubKeyCount}

WorkingCrypto == [seed |-> 0, failAt |-> 0, failIn |-> "MakeRandomTLFCryptKeyServerHalf", err |-> "errA"]

DoFillInUserInfosAnyIndex ==
    /\ ret = NoCall
    /\ \E updatedUserKeys \in UserDevicePublicKeys, newIndex \in ProbeIndices :
         \E uorder \in Orders(DOMAIN updatedUserKeys), dorders \in DeviceOrders(updatedUserKeys) :
             \E r \in {FillInUserInfos(udkimV3,
                           [crypto |-> WorkingCrypto, uid |-> "", tlfCryptKey |-> GenCryptKey,
                            ePrivKey |-> "e0", ePubIndex |-> newIndex],
                           updatedUserKeys, uorder, dorders)} :
                 /\ udkimV3' = r.udkimV3
                 /\ ret' = [op |-> "FillInUserInfos", pre |-> udkimV3,
                            updatedUserKeys |-> updatedUserKeys, newIndex |-> newIndex,
                            serverHalves |-> r.serverHalves, err |-> r.err, splits |-> r.n]
                 /\ UNCHANGED <<extra, md, mdServer>>

NextIndex == DoFillInUserInfosAnyIndex \/ DoRemoveDevicesNotIn \/ TakeResult

SpecIndex == Init /\ [][NextIndex]_vars

\* C12: every entry of the key map has an EPubKeyIndex that is at least 0 and
\* below the number of ephemeral public keys of the bundle, and a
\* FillInUserInfos called with an index below 0 or not below that number
\* returns an error and leaves the map as it was.
C12_IndexInRange ==
    /\ \A u \in DOMAIN udkimV3 : \A k \in DOMAIN udkimV3[u] :
         /\ udkimV3[u][k].EPubKeyIndex >= 0
         /\ udkimV3[u][k].EPubKeyIndex < EPubKeyCount
    /\ (ret.op = "FillInUserInfos" /\ (ret.newIndex < 0 \/ ret.newIndex >= EPubKeyCount)) =>
         (ret.err # Nil /\ udkimV3 = ret.pre)

-----------------------------------------------------------------------------
(* Key bundle IDs: MakeTLFWriterKeyBundleID and MakeTLFReaderKeyBundleID, as *)
(* TestWKBID and TestRKBID call them.  Here a Go map value is a record that  *)
(* tells a nil map from an empty one; the ID is the hash of the bundle's     *)
(* encoding, and the hash is taken to be injective.                          *)

NilMap == [isNil |-> TRUE, entries |-> EmptyMap]

MakeMap(f) == [isNil |-> FALSE, entries |-> f]

\* len(m) of a Go map.
MapLen(m) == Cardinality(DOMAIN m.entries)

\* Device maps and key maps of the bundles an ID is made of.
IDDeviceMaps(u) ==
    {NilMap} \cup {MakeMap([k \in S |-> SampleInfo(u, k)]) : S \in SUBSET DevicesOf[u]}

IDKeyMaps ==
    {NilMap} \cup UNION {{MakeMap(f) : f \in {g \in [us -> UNION {IDDeviceMaps(u) : u \in us}] :
                                                   \A u \in us : g[u] \in IDDeviceMaps(u)}} : us \in SUBSET Users}

IDWriterKeyBundles ==
    [Keys : IDKeyMaps, TLFPublicKey : {"tlfPub"}, TLFEphemeralPublicKeys : {<<EPublicKey("e0")>>},
     EncryptedHistoricTLFCryptKeys : {ZeroEncryptedData}, Unknown : UnknownFieldSets]

IDReaderKeyBundles ==
    [Keys : IDKeyMaps, TLFEphemeralPublicKeys : {<<>>, <<EPublicKey("e1")>>}, Unknown : UnknownFieldSets]

\* A codec that works or fails to encode.
IDCodecs == [failOn : {"none", "encode"}, err : {"errCodec"}]

\* The encoding of a map field that is left out when it has no entries.
OmittedField == [omitted |-> TRUE]

\* A variant of the encoding below that writes a map without entries as it
\* is, nil or empty.
EncodeKeysOmitEmptyAsIs(keys) == keys

\* The encoding of a Keys field tagged omitempty: left out when the map has
\* no entries, nil or empty alike.
EncodeKeysOmitEmpty(keys) == IF MapLen(keys) = 0 THEN OmittedField ELSE keys

EncodeWriterKeyBundleForID(wkb) ==
    [wKeys |-> wkb.Keys, pubKey |-> wkb.TLFPublicKey, ePubKey |-> wkb.TLFEphemeralPublicKeys,
     oldKeys |-> wkb.EncryptedHistoricTLFCryptKeys, unknown |-> wkb.Unknown]

EncodeReaderKeyBundleForID(rkb) ==
    [rKeys |-> EncodeKeysOmitEmpty(rkb.Keys), rEPubKey |-> rkb.TLFEphemeralPublicKeys, unknown |-> rkb.Unknown]

ZeroBundleID == [h |-> [zero |-> TRUE]]

\* A variant of MakeTLFWriterKeyBundleID that asks for a device entry.
MakeTLFWriterKeyBundleIDNeedsDevice(codec, wkb) ==
    IF \A u \in DOMAIN wkb.Keys.entries : MapLen(wkb.Keys.entries[u]) = 0
    THEN [id |-> ZeroBundleID, err |-> "Writer key bundle with no keys"]
    ELSE IF codec.failOn = "encode" THEN [id |-> ZeroBundleID, err |-> codec.err]
    ELSE [id |-> [h |-> EncodeWriterKeyBundleForID(wkb)], err |-> Nil]

\* MakeTLFWriterKeyBundleID(codec, wkb): an error for a bundle whose Keys has
\* no entry (TestWKBID's zero bundle), an ID for one with an entry, also an
\* entry that maps a user to a nil device map (TestWKBID's second bundle).
MakeTLFWriterKeyBundleID(codec, wkb) ==
    IF MapLen(wkb.Keys) = 0
    THEN [id |-> ZeroBundleID, err |-> "Writer key bundle with no keys"]
    ELSE IF codec.failOn = "encode" THEN [id |-> ZeroBundleID, err |-> codec.err]
    ELSE [id |-> [h |-> EncodeWriterKeyBundleForID(wkb)], err |-> Nil]

\* MakeTLFReaderKeyBundleID(codec, rkb).
MakeTLFReaderKeyBundleID(codec, rkb) ==
    IF codec.failOn = "encode" THEN [id |-> ZeroBundleID, err |-> codec.err]
    ELSE [id |-> [h |-> EncodeReaderKeyBundleForID(rkb)], err |-> Nil]

(* SpecID: the two ID functions on every bundle of the bounded sets.        *)

DoMakeTLFWriterKeyBundleID ==
    /\ ret = NoCall
    /\ \E codec \in IDCodecs, wkb \in IDWriterKeyBundles :
         \E r \in {MakeTLFWriterKeyBundleID(codec, wkb)} :
             ret' = [op |-> "MakeTLFWriterKeyBundleID", codec |-> codec, wkb |-> wkb, id |-> r.id, err |-> r.err]
    /\ UNCHANGED <<udkimV3, extra, md, mdServer>>

DoMakeTLFReaderKeyBundleID ==
    /\ ret = NoCall
    /\ \E codec \in IDCodecs, rkb \in IDReaderKeyBundles :
         \E r \in {MakeTLFReaderKeyBundleID(codec, rkb)} :
             ret' = [op |-> "MakeTLFReaderKeyBundleID", codec |-> codec, rkb |-> rkb, id |-> r.id, err |-> r.err]
    /\ UNCHANGED <<udkimV3, extra, md, mdServer>>

NextID == DoMakeTLFWriterKeyBundleID \/ DoMakeTLFReaderKeyBundleID \/ TakeResult

SpecID == Init /\ [][NextID]_vars

\* The number of device entries of a key map, over all its users.
RECURSIVE DeviceEntryCount(_, _)
DeviceEntryCount(keys, us) ==
    IF us = {} THEN 0
    ELSE LET u == CHOOSE x \in us : TRUE
         IN  MapLen(keys.entries[u]) + DeviceEntryCount(keys, us \ {u})

\* C13 as stated: MakeTLFWriterKeyBundleID returns an error for every writer
\* bundle that has no device entry at all.
C13_NoDeviceEntriesFails ==
    (/\ ret.op = "MakeTLFWriterKeyBundleID"
     /\ DeviceEntryCount(ret.wkb.Keys, DOMAIN ret.wkb.Keys.entries) = 0) =>
        ret.err # Nil

\* C13, amended: MakeTLFWriterKeyBundleID returns an error for every writer
\* bundle whose Keys map has no user entry (nil or empty), and with a working
\* codec it returns an ID and no error for every bundle whose Keys map has a
\* user entry, also when no user has a device entry.
C13_NoUserEntriesFails ==
    ret.op = "MakeTLFWriterKeyBundleID" =>
        /\ MapLen(ret.wkb.Keys) = 0 => (ret.err # Nil /\ ret.id = ZeroBundleID)
        /\ (MapLen(ret.wkb.Keys) > 0 /\ ret.codec.failOn = "none") => (ret.err = Nil /\ ret.id # ZeroBundleID)

\* TestWKBID's second bundle: one user mapped to a nil device map, and an ID
\* returned.
C13_Witness ==
    /\ ret.op = "MakeTLFWriterKeyBundleID"
    /\ MapLen(ret.wkb.Keys) = 1
    /\ \A u \in DOMAIN ret.wkb.Keys.entries : ret.wkb.Keys.entries[u] = NilMap
    /\ ret.err = Nil

\* C14: with a working codec, a reader bundle whose Keys map is nil and the
\* bundle that differs from it only in that Keys is an empty map both get an
\* ID without error, and the two IDs are equal.
C14_NilAndEmptyReaderKeysSameID ==
    (/\ ret.op = "MakeTLFReaderKeyBundleID"
     /\ ret.codec.failOn = "none"
     /\ ret.rkb.Keys = NilMap) =>
        LET other == MakeTLFReaderKeyBundleID(ret.codec, [ret.rkb EXCEPT !.Keys = MakeMap(EmptyMap)])
        IN  /\ ret.err = Nil
            /\ other.err = Nil
            /\ other.id = ret.id

\* An ID made of a reader bundle with nil Keys and an ephemeral public key.
C14_Witness ==
    /\ ret.op = "MakeTLFReaderKeyBundleID"
    /\ ret.codec.failOn = "none"
    /\ ret.rkb.Keys = NilMap
    /\ ret.rkb.TLFEphemeralPublicKeys # <<>>
    /\ ret.err = Nil

-----------------------------------------------------------------------------
(* CheckValidSuccessor and publishing (libkbfs BareRootMetadata).  Only the  *)
(* interface is among the source files; the check is the one the             *)
(* specification describes: the revision number is the current one plus one, *)
(* the previous-root is the current revision's ID, and a revision that only  *)
(* rekeys leaves the other fields as they were.                              *)

\* The largest number of revisions the server accepts in a behavior.
MaxRevisions == 3

RevisionInitial == 1

Writers == {"w1", "w2"}

MDData == {"d0", "d1"}

\* The ID of a revision: a hash of its content, taken to be injective.
MdID(m) == <<"mdid", m>>

ZeroMdID == MdID(NoMD)

InitialMD == [revision |-> RevisionInitial, prevRoot |-> ZeroMdID, data |-> "d0", writer |-> "w1", rekeyOnly |-> FALSE]

\* The successor a writer builds from the revision curr it has read: a rekey
\* of it.
MakeSuccessor(curr, w) ==
    [revision |-> curr.revision + 1, prevRoot |-> MdID(curr), data |-> curr.data, writer |-> w, rekeyOnly |-> TRUE]

\* Variants of the check: one that does not look at the previous-root, one
\* that only asks the revision number not to go back.
CheckValidSuccessorNoPrevRoot(m, currID, nextMd) ==
    IF nextMd.revision # m.revision + 1 THEN "MDRevisionMismatch"
    ELSE IF nextMd.rekeyOnly /\ nextMd.data # m.data THEN "MDRekeyChangedFields"
    ELSE Nil

CheckValidSuccessorNotBelow(m, currID, nextMd) ==
    IF nextMd.revision < m.revision THEN "MDRevisionMismatch"
    ELSE IF nextMd.rekeyOnly /\ nextMd.data # m.data THEN "MDRekeyChangedFields"
    ELSE Nil

\* m.CheckValidSuccessor(currID, nextMd): nil or the error.
CheckValidSuccessor(m, currID, nextMd) ==
    IF nextMd.revision # m.revision + 1 THEN "MDRevisionMismatch"
    ELSE IF nextMd.prevRoot # currID THEN "MDPrevRootMismatch"
    ELSE IF nextMd.rekeyOnly /\ nextMd.data # m.data THEN "MDRekeyChangedFields"
    ELSE Nil

Latest(server) == server.history[Len(server.history)]

\* The candidates CheckValidSuccessor is asked about: any revision number
\* around the current one, the previous-root right, that of the revision
\* before, or zero.
Candidates(server) ==
    LET m == Latest(server)
    IN  [revision : (m.revision - 1) .. (m.revision + 2),
         prevRoot : {MdID(m), m.prevRoot, ZeroMdID},
         data : MDData, writer : Writers, rekeyOnly : BOOLEAN]

(* SpecPublish: writers build successors of the latest revision they read    *)
(* and publish them; the server accepts a candidate that passes the latest   *)
(* revision's CheckValidSuccessor.                                           *)

InitPublish ==
    /\ udkimV3 = EmptyMap
    /\ extra = NoExtra
    /\ md = NoMD
    /\ mdServer = [history |-> <<InitialMD>>, cand |-> [w \in Writers |-> NoMD]]
    /\ ret = NoCall

DoCheckValidSuccessor ==
    /\ ret = NoCall
    /\ \E nextMd \in Candidates(mdServer), currID \in {MdID(Latest(mdServer)), ZeroMdID} :
         ret' = [op |-> "CheckValidSuccessor", md |-> Latest(mdServer), currID |-> currID, nextMd |-> nextMd,
                 err |-> CheckValidSuccessor(Latest(mdServer), currID, nextMd)]
    /\ UNCHANGED <<udkimV3, extra, md, mdServer>>

\* Writer w reads the latest revision and builds its successor (again, when
\* it had built one before).
DoBuildCandidate ==
    /\ ret = NoCall
    /\ \E w \in Writers :
         /\ mdServer' = [mdServer EXCEPT !.cand[w] = MakeSuccessor(Latest(mdServer), w)]
         /\ ret' = [op |-> "BuildCandidate", writer |-> w, pre |-> mdServer]
    /\ UNCHANGED <<udkimV3, extra, md>>

\* Writer w publishes its candidate.
DoPublish ==
    /\ ret = NoCall
    /\ Len(mdServer.history) < MaxRevisions
    /\ \E w \in Writers :
         /\ mdServer.cand[w] # NoMD
         /\ \E err \in {CheckValidSuccessor(Latest(mdServer), MdID(Latest(mdServer)), mdServer.cand[w])} :
              /\ mdServer' = IF err = Nil
                             THEN [history |-> Append(mdServer.history, mdServer.cand[w]),
                                   cand |-> [mdServer.cand EXCEPT ![w] = NoMD]]
                             ELSE mdServer
              /\ ret' = [op |-> "Publish", writer |-> w, pre |-> mdServer, nextMd |-> mdServer.cand[w], err |-> err]
    /\ UNCHANGED <<udkimV3, extra, md>>

NextPublish == DoCheckValidSuccessor \/ DoBuildCandidate \/ DoPublish \/ TakeResult

SpecPublish == InitPublish /\ [][NextPublish]_vars

\* C15: CheckValidSuccessor returns an error for every candidate whose
\* revision number is not the current one plus one and for every candidate
\* whose previous-root is not currID; it returns nil only for a candidate for
\* which both hold.
C15_SuccessorChecked ==
    ret.op = "CheckValidSuccessor" =>
        /\ ret.nextMd.revision # ret.md.revision + 1 => ret.err # Nil
        /\ ret.nextMd.prevRoot # ret.currID => ret.err # Nil
        /\ ret.err = Nil => (ret.nextMd.revision = ret.md.revision + 1 /\ ret.nextMd.prevRoot = ret.currID)

\* A candidate with the right revision number and another previous-root,
\* checked against a revision that has a predecessor.
C15_Witness ==
    /\ ret.op = "CheckValidSuccessor"
    /\ ret.md.revision > RevisionInitial
    /\ ret.nextMd.revision = ret.md.revision + 1
    /\ ret.nextMd.prevRoot = ret.md.prevRoot
    /\ ret.currID = MdID(ret.md)
    /\ ret.err = "MDPrevRootMismatch"

\* C16: the accepted revisions have consecutive revision numbers (so no two
\* have the same one) and each one's previous-root is the ID of the one
\* before it; a publish is accepted exactly when the candidate was built from
\* the then-latest revision, and a rejected one leaves the history as it
\* was; and of two candidates built from the same latest revision, the first
\* published is accepted, the other is then rejected, and its rebuild from
\* the new latest revision is accepted.
C16_OptimisticPublish ==
    LET h == mdServer.history
        m == Latest(mdServer)
    IN  /\ \A i \in 1 .. Len(h) : h[i].revision = RevisionInitial + i - 1
        /\ \A i \in 2 .. Len(h) : h[i].prevRoot = MdID(h[i - 1])
        /\ ret.op = "Publish" =>
             /\ ret.err = Nil <=> ret.nextMd.prevRoot = MdID(Latest(ret.pre))
             /\ ret.err = Nil => h = Append(ret.pre.history, ret.nextMd)
             /\ ret.err # Nil => mdServer = ret.pre
        /\ \A w1 \in Writers, w2 \in Writers :
             (/\ w1 # w2
              /\ mdServer.cand[w1] # NoMD
              /\ mdServer.cand[w2] # NoMD
              /\ mdServer.cand[w1].prevRoot = MdID(m)
              /\ mdServer.cand[w2].prevRoot = MdID(m)) =>
                 LET first == mdServer.cand[w1]
                     second == mdServer.cand[w2]
                 IN  /\ CheckValidSuccessor(m, MdID(m), first) = Nil
                     /\ CheckValidSuccessor(first, MdID(first), second) # Nil
                     /\ CheckValidSuccessor(first, MdID(first), MakeSuccessor(first, w2)) = Nil

\* The second of two candidates built from the same revision was published
\* after the first and rejected.
C16_Witness ==
    /\ ret.op = "Publish"
    /\ ret.err # Nil
    /\ Len(mdServer.history) >= 2
    /\ ret.nextMd.prevRoot = Latest(mdServer).prevRoot
    /\ ret.nextMd.writer # Latest(mdServer).writer

-----------------------------------------------------------------------------
(* The rekey operations of a metadata revision (MutableBareRootMetadata).    *)
(* The source files hold their interface and its comments; the bodies are    *)
(* those the specification describes.  A revision has a format (V2 embeds    *)
(* the bundles of every key generation, V3 keeps those of the latest one     *)
(* and the chain of historic keys), the number of its key generations, and   *)
(* per bundle the writer keys, the reader keys and the number of ephemeral   *)
(* public keys.                                                              *)

\* The largest number of key generations of a revision in a behavior.
MaxKeyGens == 2

FirstValidKeyGen == 1

ZeroTLFCryptKey == 0

MDFormats == {"V2", "V3"}

\* The updated keys a rekey is called with: u1 writes with one or both of
\* its devices; u2 reads, or u2 and u1 with its second device.
KeysOver(f) == [u \in DOMAIN f |-> [k \in f[u] |-> TRUE]]

UpdatedWriterKeys ==
    {EmptyMap, KeysOver("u1" :> {"k1"}), KeysOver("u1" :> {"k1", "k2"})}

UpdatedReaderKeys ==
    {EmptyMap, KeysOver("u2" :> {"k3"}), KeysOver(("u1" :> {"k2"}) @@ ("u2" :> {"k3"}))}

EmptyRekeyMD(format) == [ver |-> format, latestKeyGen |-> FirstValidKeyGen - 1, gens |-> <<>>, historic |-> <<>>]

StoresHistoricTLFCryptKeys(m) == m.ver = "V3"

LatestKeyGeneration(m) == m.latestKeyGen

\* The place in m.gens of the bundles of key generation g.
BundleIndex(m, g) == IF m.ver = "V3" THEN 1 ELSE g - FirstValidKeyGen + 1

\* m.KeyGenerationsToUpdate(): <<start, end>>, empty without key generations.
KeyGenerationsToUpdate(m) ==
    IF m.latestKeyGen < FirstValidKeyGen THEN <<0, 0>>
    ELSE IF m.ver = "V3" THEN <<m.latestKeyGen, m.latestKeyGen + 1>>
    ELSE <<FirstValidKeyGen, m.latestKeyGen + 1>>

\* The outcomes of udkim.FillInUserInfos, one per order of its loops.
Fills(udkim, newIndex, updatedUserKeys, tlfCryptKey) ==
    {FillInUserInfos(udkim,
         [crypto |-> WorkingCrypto, uid |-> "", tlfCryptKey |-> tlfCryptKey, ePrivKey |-> "e0", ePubIndex |-> newIndex],
         updatedUserKeys, uorder, dorders) :
       uorder \in Orders(DOMAIN updatedUserKeys), dorders \in DeviceOrders(updatedUserKeys)}

\* The bundles after filling the writer keys (outcome w) and then the reader
\* keys (outcome r): the ephemeral public key is kept when a device was added.
FilledBundle(b, w, r) ==
    [wkeys |-> w.udkimV3, rkeys |-> r.udkimV3,
     ePubKeys |-> IF w.serverHalves # EmptyMap \/ r.serverHalves # EmptyMap THEN b.ePubKeys + 1 ELSE b.ePubKeys]

EmptyBundle == [wkeys |-> EmptyMap, rkeys |-> EmptyMap, ePubKeys |-> 0]

\* The historic key currCryptKey encrypted under nextCryptKey.
EncryptTLFCryptKeys(currCryptKey, nextCryptKey) == [encrypted |-> currCryptKey, key |-> nextCryptKey]

\* The new generation of a successful AddKeyGeneration: its bundles hold the
\* ephemeral public key of the call, at index 0.
AddedKeyGeneration(m, currCryptKey, nextCryptKey, w, r) ==
    LET b == [FilledBundle(EmptyBundle, w, r) EXCEPT !.ePubKeys = 1]
    IN  [ver |-> m.ver,
         latestKeyGen |-> m.latestKeyGen + 1,
         gens |-> IF m.ver = "V3" THEN <<b>> ELSE Append(m.gens, b),
         historic |-> IF currCryptKey # ZeroTLFCryptKey
                      THEN Append(m.historic, EncryptTLFCryptKeys(currCryptKey, nextCryptKey))
                      ELSE m.historic]

AddKeyGenerationOutcomes(m, currCryptKey, nextCryptKey, updatedWriterKeys, updatedReaderKeys) ==
    {[md |-> AddedKeyGeneration(m, currCryptKey, nextCryptKey, w, r),
      serverHalves |-> [writers |-> w.serverHalves, readers |-> r.serverHalves], err |-> Nil] :
        w \in Fills(EmptyMap, 0, updatedWriterKeys, nextCryptKey),
        r \in Fills(EmptyMap, 0, updatedReaderKeys, nextCryptKey)}

NoServerHalves == [writers |-> EmptyMap, readers |-> EmptyMap]

\* A variant that takes a zero current key for "no historic key to store".
AddKeyGenerationZeroIsNone(m, currCryptKey, nextCryptKey, updatedWriterKeys, updatedReaderKeys) ==
    IF ~StoresHistoricTLFCryptKeys(m) /\ currCryptKey # ZeroTLFCryptKey
    THEN {[md |-> m, serverHalves |-> NoServerHalves, err |-> "currCryptKey unexpectedly non-zero"]}
    ELSE IF StoresHistoricTLFCryptKeys(m) /\ currCryptKey # ZeroTLFCryptKey /\ m.latestKeyGen < FirstValidKeyGen
    THEN {[md |-> m, serverHalves |-> NoServerHalves, err |-> "Non-zero current crypt key with no existing key generations"]}
    ELSE AddKeyGenerationOutcomes(m, currCryptKey, nextCryptKey, updatedWriterKeys, updatedReaderKeys)

\* m.AddKeyGeneration(updatedWriterKeys, updatedReaderKeys, currCryptKey,
\* nextCryptKey): the possible outcomes [md, serverHalves, err].
AddKeyGeneration(m, currCryptKey, nextCryptKey, updatedWriterKeys, updatedReaderKeys) ==
    IF ~StoresHistoricTLFCryptKeys(m) /\ currCryptKey # ZeroTLFCryptKey
    THEN {[md |-> m, serverHalves |-> NoServerHalves, err |-> "currCryptKey unexpectedly non-zero"]}
    ELSE IF StoresHistoricTLFCryptKeys(m) /\ currCryptKey = ZeroTLFCryptKey /\ m.latestKeyGen >= FirstValidKeyGen
    THEN {[md |-> m, serverHalves |-> NoServerHalves, err |-> "Zero current crypt key with existing key generations"]}
    ELSE IF StoresHistoricTLFCryptKeys(m) /\ currCryptKey # ZeroTLFCryptKey /\ m.latestKeyGen < FirstValidKeyGen
    THEN {[md |-> m, serverHalves |-> NoServerHalves, err |-> "Non-zero current crypt key with no existing key generations"]}
    ELSE AddKeyGenerationOutcomes(m, currCryptKey, nextCryptKey, updatedWriterKeys, updatedReaderKeys)

\* The crypt keys UpdateKeyBundles is called with, one per key generation.
TLFCryptKeySeqs == {[i \in 1 .. n |-> GenCryptKey] : n \in 0 .. MaxKeyGens}

\* One round of the loop of UpdateKeyBundles, for key generation g: the
\* writer keys are filled, then the reader keys, and the server halves of
\* the two are one more batch.
UpdateKeyBundlesStep(st, g, tlfCryptKey, updatedWriterKeys, updatedReaderKeys) ==
    LET i == BundleIndex(st.md, g)
        b == st.md.gens[i]
    IN  UNION {
          IF w.err # Nil
          THEN {[md |-> [st.md EXCEPT !.gens[i].wkeys = w.udkimV3], serverHalves |-> <<>>, err |-> w.err]}
          ELSE {IF r.err # Nil
                THEN [md |-> [st.md EXCEPT !.gens[i].wkeys = w.udkimV3, !.gens[i].rkeys = r.udkimV3],
                      serverHalves |-> <<>>, err |-> r.err]
                ELSE [md |-> [st.md EXCEPT !.gens[i] = FilledBundle(b, w, r)],
                      serverHalves |-> Append(st.serverHalves, [writers |-> w.serverHalves, readers |-> r.serverHalves]),
                      err |-> Nil] :
                  r \in Fills(b.rkeys, b.ePubKeys, updatedReaderKeys, tlfCryptKey)} :
          w \in Fills(b.wkeys, b.ePubKeys, updatedWriterKeys, tlfCryptKey)}

RECURSIVE UpdateKeyBundlesLoop(_, _, _, _, _, _)
UpdateKeyBundlesLoop(sts, g, start, end, tlfCryptKeys, keys) ==
    IF g >= end THEN sts
    ELSE UpdateKeyBundlesLoop(
             UNION {IF st.err # Nil THEN {st}
                    ELSE UpdateKeyBundlesStep(st, g, tlfCryptKeys[g - start + 1], keys.writers, keys.readers) : st \in sts},
             g + 1, start, end, tlfCryptKeys, keys)

ReverseSeq(q) == [i \in 1 .. Len(q) |-> q[Len(q) + 1 - i]]

\* A variant that returns the batches latest generation first.
UpdateKeyBundlesLatestFirst(m, updatedWriterKeys, updatedReaderKeys, tlfCryptKeys) ==
    LET range == KeyGenerationsToUpdate(m)
    IN  IF Len(tlfCryptKeys) # range[2] - range[1]
        THEN {[md |-> m, serverHalves |-> <<>>, err |-> "Expected a crypt key per key generation"]}
        ELSE {[o EXCEPT !.serverHalves = ReverseSeq(o.serverHalves)] :
                o \in UpdateKeyBundlesLoop({[md |-> m, serverHalves |-> <<>>, err |-> Nil]}, range[1], range[1], range[2],
                                           tlfCryptKeys, [writers |-> updatedWriterKeys, readers |-> updatedReaderKeys])}

\* m.UpdateKeyBundles(updatedWriterKeys, updatedReaderKeys, tlfCryptKeys):
\* the possible outcomes [md, serverHalves, err].
UpdateKeyBundles(m, updatedWriterKeys, updatedReaderKeys, tlfCryptKeys) ==
    LET range == KeyGenerationsToUpdate(m)
    IN  IF Len(tlfCryptKeys) # range[2] - range[1]
        THEN {[md |-> m, serverHalves |-> <<>>, err |-> "Expected a crypt key per key generation"]}
        ELSE UpdateKeyBundlesLoop({[md |-> m, serverHalves |-> <<>>, err |-> Nil]}, range[1], range[1], range[2],
                                  tlfCryptKeys, [writers |-> updatedWriterKeys, readers |-> updatedReaderKeys])

\* The device keys of a promoted reader joined to those the user has as a
\* writer: a device the writer entry has keeps its writer key info.
MergeDeviceKeyInfoMaps(wdkim, rdkim) ==
    [k \in DOMAIN wdkim \cup DOMAIN rdkim |-> IF k \in DOMAIN wdkim THEN wdkim[k] ELSE rdkim[k]]

\* A variant in which the reader's device keys take the place of the
\* writer's.
PromoteReadersStepOverwrites(st, reader) ==
    IF st.err # Nil THEN st
    ELSE IF reader \notin DOMAIN st.b.rkeys THEN [st EXCEPT !.err = "Could not find reader in reader key bundle"]
    ELSE [b |-> [st.b EXCEPT !.wkeys = MapSet(st.b.wkeys, reader, st.b.rkeys[reader]),
                             !.rkeys = MapDelete(st.b.rkeys, reader)],
          err |-> Nil]

\* One round of the loop of PromoteReaders, for one reader to promote.
PromoteReadersStep(st, reader) ==
    IF st.err # Nil THEN st
    ELSE IF reader \notin DOMAIN st.b.rkeys THEN [st EXCEPT !.err = "Could not find reader in reader key bundle"]
    ELSE LET rdkim == st.b.rkeys[reader]
             dkim == IF reader \in DOMAIN st.b.wkeys THEN MergeDeviceKeyInfoMaps(st.b.wkeys[reader], rdkim) ELSE rdkim
         IN  [b |-> [st.b EXCEPT !.wkeys = MapSet(st.b.wkeys, reader, dkim),
                                 !.rkeys = MapDelete(st.b.rkeys, reader)],
              err |-> Nil]

RECURSIVE PromoteReadersLoop(_, _, _)
PromoteReadersLoop(st, order, i) ==
    IF i > Len(order) THEN st
    ELSE PromoteReadersLoop(PromoteReadersStep(st, order[i]), order, i + 1)

\* m.PromoteReaders(readersToPromote), on the bundles of the revision in
\* progress, the latest key generation's; order is that of the loop over
\* readersToPromote.
PromoteReaders(m, order) ==
    LET r == PromoteReadersLoop([b |-> m.gens[Len(m.gens)], err |-> Nil], order, 1)
    IN  [md |-> [m EXCEPT !.gens[Len(m.gens)] = r.b], err |-> r.err]

\* The outcomes of udkim.RemoveDevicesNotIn, one per order of its loop.
Removals(udkim, updatedUserKeys) ==
    {RemoveDevicesNotIn(udkim, updatedUserKeys, uorder) : uorder \in Orders(DOMAIN udkim)}

\* The removal info of the generations so far with that of one more: a device
\* removed from several generations has a ServerHalfID for each of them.
AppendRemovalInfo(info, more) ==
    [u \in DOMAIN info \cup DOMAIN more |->
        IF u \notin DOMAIN more THEN info[u]
        ELSE IF u \notin DOMAIN info THEN more[u]
        ELSE [UserRemoved |-> info[u].UserRemoved \/ more[u].UserRemoved,
              DeviceServerHalfIDs |->
                  [k \in DOMAIN info[u].DeviceServerHalfIDs \cup DOMAIN more[u].DeviceServerHalfIDs |->
                      (IF k \in DOMAIN info[u].DeviceServerHalfIDs THEN info[u].DeviceServerHalfIDs[k] ELSE <<>>)
                      \o (IF k \in DOMAIN more[u].DeviceServerHalfIDs THEN more[u].DeviceServerHalfIDs[k] ELSE <<>>)]]]

\* The entries of a removal info; the union of two removal infos is the
\* union of their entries.
RemovalEntries(info) ==
    {[uid |-> u, UserRemoved |-> info[u].UserRemoved, DeviceServerHalfIDs |-> info[u].DeviceServerHalfIDs] : u \in DOMAIN info}

RevokeRemovedDevicesStep(st, i, updatedWriterKeys, updatedReaderKeys) ==
    {[md |-> [st.md EXCEPT !.gens[i].wkeys = w.udkimV3, !.gens[i].rkeys = r.udkimV3],
      wInfo |-> AppendRemovalInfo(st.wInfo, w.removalInfo),
      rInfo |-> AppendRemovalInfo(st.rInfo, r.removalInfo)] :
        w \in Removals(st.md.gens[i].wkeys, updatedWriterKeys),
        r \in Removals(st.md.gens[i].rkeys, updatedReaderKeys)}

RECURSIVE RevokeRemovedDevicesLoop(_, _, _, _)
RevokeRemovedDevicesLoop(sts, i, updatedWriterKeys, updatedReaderKeys) ==
    IF sts = {} \/ i > Len((CHOOSE st \in sts : TRUE).md.gens) THEN sts
    ELSE RevokeRemovedDevicesLoop(
             UNION {RevokeRemovedDevicesStep(st, i, updatedWriterKeys, updatedReaderKeys) : st \in sts},
             i + 1, updatedWriterKeys, updatedReaderKeys)

\* A variant that holds the reader keys against the updated writer keys.
RevokeRemovedDevicesWriterKeys(m, updatedWriterKeys, updatedReaderKeys) ==
    {[md |-> st.md, removalInfo |-> RemovalEntries(st.wInfo) \cup RemovalEntries(st.rInfo), err |-> Nil] :
        st \in RevokeRemovedDevicesLoop({[md |-> m, wInfo |-> EmptyMap, rInfo |-> EmptyMap]},
                                        IF m.ver = "V3" THEN Len(m.gens) ELSE 1, updatedWriterKeys, updatedWriterKeys)}

\* m.RevokeRemovedDevices(updatedWriterKeys, updatedReaderKeys): the possible
\* outcomes [md, removalInfo, err].
RevokeRemovedDevices(m, updatedWriterKeys, updatedReaderKeys) ==
    {[md |-> st.md, removalInfo |-> RemovalEntries(st.wInfo) \cup RemovalEntries(st.rInfo), err |-> Nil] :
        st \in RevokeRemovedDevicesLoop({[md |-> m, wInfo |-> EmptyMap, rInfo |-> EmptyMap]},
                                        IF m.ver = "V3" THEN Len(m.gens) ELSE 1, updatedWriterKeys, updatedReaderKeys)}

InitRekey ==
    /\ udkimV3 = EmptyMap
    /\ extra = NoExtra
    /\ md \in {EmptyRekeyMD(format) : format \in MDFormats}
    /\ mdServer = NoServer
    /\ ret = NoCall

DoAddKeyGeneration ==
    /\ ret = NoCall
    /\ md.latestKeyGen < MaxKeyGens
    /\ \E currCryptKey \in {ZeroTLFCryptKey, GenCryptKey}, updatedWriterKeys \in UpdatedWriterKeys, updatedReaderKeys \in UpdatedReaderKeys :
         \E r \in AddKeyGeneration(md, currCryptKey, GenCryptKey, updatedWriterKeys, updatedReaderKeys) :
             /\ md' = r.md
             /\ ret' = [op |-> "AddKeyGeneration", pre |-> md, currCryptKey |-> currCryptKey,
                        serverHalves |-> r.serverHalves, err |-> r.err]
    /\ UNCHANGED <<udkimV3, extra, mdServer>>

\* The index the new ephemeral public key gets in every bundle of the
\* revision, the number of keys the bundle has, is one the fills are drawn
\* with.
NewIndexIsFillIndex(m) == \A i \in 1 .. Len(m.gens) : m.gens[i].ePubKeys \in FillIndices

DoUpdateKeyBundles ==
    /\ ret = NoCall
    /\ NewIndexIsFillIndex(md)
    /\ \E updatedWriterKeys \in UpdatedWriterKeys, updatedReaderKeys \in UpdatedReaderKeys, tlfCryptKeys \in TLFCryptKeySeqs :
         \E r \in UpdateKeyBundles(md, updatedWriterKeys, updatedReaderKeys, tlfCryptKeys) :
             /\ md' = r.md
             /\ ret' = [op |-> "UpdateKeyBundles", pre |-> md, updatedWriterKeys |-> updatedWriterKeys,
                        updatedReaderKeys |-> updatedReaderKeys, serverHalves |-> r.serverHalves, err |-> r.err]
    /\ UNCHANGED <<udkimV3, extra, mdServer>>

DoPromoteReaders ==
    /\ ret = NoCall
    /\ md.latestKeyGen >= FirstValidKeyGen
    /\ \E readersToPromote \in SUBSET Users :
         \E order \in Orders(readersToPromote) :
             \E r \in {PromoteReaders(md, order)} :
                 /\ md' = r.md
                 /\ ret' = [op |-> "PromoteReaders", pre |-> md, readersToPromote |-> readersToPromote, err |-> r.err]
    /\ UNCHANGED <<udkimV3, extra, mdServer>>

DoRevokeRemovedDevices ==
    /\ ret = NoCall
    /\ md.latestKeyGen >= FirstValidKeyGen
    /\ \E updatedWriterKeys \in UpdatedWriterKeys, updatedReaderKeys \in UpdatedReaderKeys :
         \E r \in RevokeRemovedDevices(md, updatedWriterKeys, updatedReaderKeys) :
             /\ md' = r.md
             /\ ret' = [op |-> "RevokeRemovedDevices", pre |-> md, updatedWriterKeys |-> updatedWriterKeys,
                        updatedReaderKeys |-> updatedReaderKeys, removalInfo |-> r.removalInfo, err |-> r.err]
    /\ UNCHANGED <<udkimV3, extra, mdServer>>

(* SpecRevoke: on a V3 revision key generations are added, readers promoted  *)
(* and removed devices revoked.                                              *)
InitRevoke ==
    /\ udkimV3 = EmptyMap
    /\ extra = NoExtra
    /\ md = EmptyRekeyMD("V3")
    /\ mdServer = NoServer
    /\ ret = NoCall

NextRevoke == DoAddKeyGeneration \/ DoPromoteReaders \/ DoRevokeRemovedDevices \/ TakeResult

SpecRevoke == InitRevoke /\ [][NextRevoke]_vars

NextRekey == DoAddKeyGeneration \/ DoUpdateKeyBundles \/ TakeResult

SpecRekey == InitRekey /\ [][NextRekey]_vars

\* C17: AddKeyGeneration on a format that does not store historic keys fails
\* for a non-zero currCryptKey; on a format that does, it fails for a
\* non-zero currCryptKey without a key generation and for a zero one with a
\* key generation; a failed call adds no generation and changes nothing, and
\* a call that meets the precondition adds exactly one.
C17_CurrCryptKeyPrecondition ==
    ret.op = "AddKeyGeneration" =>
        LET zero == ret.currCryptKey = ZeroTLFCryptKey
            exists == ret.pre.latestKeyGen >= FirstValidKeyGen
            mismatch == IF ret.pre.ver = "V3" THEN zero = exists ELSE ~zero
        IN  /\ mismatch <=> ret.err # Nil
            /\ ret.err # Nil => (md = ret.pre /\ ret.serverHalves = NoServerHalves)
            /\ ret.err = Nil => md.latestKeyGen = ret.pre.latestKeyGen + 1

\* A zero currCryptKey was refused on a V3 revision that has a key
\* generation.
C17_Witness ==
    /\ ret.op = "AddKeyGeneration"
    /\ ret.pre.ver = "V3"
    /\ ret.pre.latestKeyGen >= FirstValidKeyGen
    /\ ret.currCryptKey = ZeroTLFCryptKey
    /\ ret.err # Nil
    /\ md = ret.pre

\* The devices of updatedUserKeys that udkim has no entry for.
MissingDevices(udkim, updatedUserKeys) ==
    {e \in UNION {{<<u, k>> : k \in DOMAIN updatedUserKeys[u]} : u \in DOMAIN updatedUserKeys} :
        ~(e[1] \in DOMAIN udkim /\ e[2] \in DOMAIN udkim[e[1]])}

\* The devices a map of server halves has a server half for.
DevicesOfHalves(serverHalves) ==
    UNION {{<<u, k>> : k \in DOMAIN serverHalves[u]} : u \in DOMAIN serverHalves}

C19_PromoteReadersMoves ==
    ret.op = "PromoteReaders" =>
        LET n == Len(ret.pre.gens)
            before == ret.pre.gens[n]
            after == md.gens[n]
            uids == ret.readersToPromote
        IN  /\ (\E u \in uids : u \notin DOMAIN before.rkeys) => ret.err # Nil
            /\ uids = {} => (ret.err = Nil /\ md = ret.pre)
            /\ ret.err = Nil =>
                 /\ DOMAIN after.rkeys = DOMAIN before.rkeys \ uids
                 /\ DOMAIN after.wkeys = DOMAIN before.wkeys \cup uids
                 /\ \A u \in DOMAIN after.rkeys : after.rkeys[u] = before.rkeys[u]
                 /\ \A u \in DOMAIN before.wkeys \ uids : after.wkeys[u] = before.wkeys[u]
                 /\ \A u \in uids :
                      LET wdkim == IF u \in DOMAIN before.wkeys THEN before.wkeys[u] ELSE EmptyMap
                      IN  /\ DOMAIN after.wkeys[u] = DOMAIN wdkim \cup DOMAIN before.rkeys[u]
                          /\ \A k \in DOMAIN wdkim : after.wkeys[u][k] = wdkim[k]
                          /\ \A k \in DOMAIN before.rkeys[u] \ DOMAIN wdkim : after.wkeys[u][k] = before.rkeys[u][k]
                 /\ \A i \in 1 .. (n - 1) : md.gens[i] = ret.pre.gens[i]

\* A reader was promoted that was a writer too, with a device in both
\* bundles under different key infos and a writer device the reader entry
\* lacked.
C19_Witness ==
    /\ ret.op = "PromoteReaders"
    /\ ret.err = Nil
    /\ \E u \in ret.readersToPromote :
         LET before == ret.pre.gens[Len(ret.pre.gens)]
         IN  /\ u \in DOMAIN before.wkeys
             /\ \E k \in DOMAIN before.wkeys[u] \cap DOMAIN before.rkeys[u] : before.wkeys[u][k] # before.rkeys[u][k]
             /\ DOMAIN before.wkeys[u] \ DOMAIN before.rkeys[u] # {}

\* The removal info RemoveDevicesNotIn(M) is to return on the map pre, as
\* entries: one for each user of pre that is no key of M or has a device M
\* does not allow, with the ServerHalfID of each such device.
ExpectedRemovalEntries(pre, M) ==
    LET gone(u) == IF u \in DOMAIN M THEN NotAllowedDevices(pre, M, u) ELSE DOMAIN pre[u]
    IN  {[uid |-> u, UserRemoved |-> u \notin DOMAIN M,
          DeviceServerHalfIDs |-> [k \in gone(u) |-> <<pre[u][k].ServerHalfID>>]] :
            u \in {x \in DOMAIN pre : x \notin DOMAIN M \/ gone(x) # {}}}

-----------------------------------------------------------------------------
(* Properties of the key maps under the orders of their loops, on errors and *)
(* in sequences of calls; checked in specification Spec.                     *)

\* C21: for the receiver and the target devices of a FillInDeviceInfos call
\* and any crypto, the devices of the device map after the call and the
\* devices of the returned server halves are the same for any two orders of
\* the loop over the target devices.
C21_FillOrderIndependent ==
    ret.op = "FillInDeviceInfos" =>
        LET dkim == ret.pre[ret.uid]
            T == ret.updatedDeviceKeys
        IN  \A crypto \in MapCryptos(Cardinality((DOMAIN T) \ DOMAIN dkim)) :
              \A o1 \in Orders(DOMAIN T), o2 \in Orders(DOMAIN T) :
                LET a == [crypto |-> crypto, uid |-> ret.uid, tlfCryptKey |-> GenCryptKey,
                          ePrivKey |-> EPrivKeyAt[ret.ePubIndex], ePubIndex |-> ret.ePubIndex]
                    r1 == FillInDeviceInfos(dkim, a, 0, T, o1)
                    r2 == FillInDeviceInfos(dkim, a, 0, T, o2)
                IN  /\ DOMAIN r1.dkimV3 = DOMAIN r2.dkimV3
                    /\ DOMAIN r1.serverHalves = DOMAIN r2.serverHalves

-----------------------------------------------------------------------------
(* Unknown fields (codec.UnknownFieldSetHandler).  The codec is not among    *)
(* the source files; it is modelled as the specification and the tests       *)
(* describe it.  An encoded record is a map from field tags to values; a     *)
(* record of a newer format version is encoded with the tags of the current  *)
(* version and with fields the current version does not know.  Decoding      *)
(* keeps the fields it does not know in the record's unknown-field set, and  *)
(* encoding writes them out again.                                           *)

\* The fields a newer version adds (kbfscodec.Extra), or none.
ExtraFields == {EmptyMap, [f \in {"extra"} |-> "futureValue"]}

WireInfoTags == {"c", "s", "i"}

\* The known fields of a TLFCryptKeyInfo under their tags; EPubKeyIndex is
\* tagged omitempty.
EncodeInfoFields(info) ==
    ("c" :> info.ClientHalf) @@ ("s" :> info.ServerHalfID) @@
    (IF info.EPubKeyIndex # 0 THEN "i" :> info.EPubKeyIndex ELSE EmptyMap)

\* tlfCryptKeyInfoFuture: a TLFCryptKeyInfo with extra fields.
TLFCryptKeyInfoFutures(u, k) ==
    {[info |-> [SampleInfo(u, k) EXCEPT !.EPubKeyIndex = i], extra |-> x] : i \in {0, 1}, x \in ExtraFields}

EncodeTLFCryptKeyInfoFuture(kif) == EncodeInfoFields(kif.info) @@ kif.extra

\* A variant of the decoding that drops the fields it does not know.
DecodeWireInfoDropsUnknown(wire) ==
    [ClientHalf |-> wire["c"], ServerHalfID |-> wire["s"],
     EPubKeyIndex |-> IF "i" \in DOMAIN wire THEN wire["i"] ELSE 0,
     Unknown |-> EmptyMap]

\* An encoded TLFCryptKeyInfo decoded by the current version.
DecodeWireInfo(wire) ==
    [ClientHalf |-> wire["c"], ServerHalfID |-> wire["s"],
     EPubKeyIndex |-> IF "i" \in DOMAIN wire THEN wire["i"] ELSE 0,
     Unknown |-> [f \in (DOMAIN wire) \ WireInfoTags |-> wire[f]]]

EncodeWireInfo(info) == EncodeInfoFields(info) @@ info.Unknown

EncodeWireKeys(keys, encodeInfo(_)) == [u \in DOMAIN keys |-> [k \in DOMAIN keys[u] |-> encodeInfo(keys[u][k])]]

DecodeWireKeys(wire) == [u \in DOMAIN wire |-> [k \in DOMAIN wire[u] |-> DecodeWireInfo(wire[u][k])]]

\* userDeviceKeyInfoMapV3Future values: no user, one device, every device.
UserDeviceKeyInfoMapV3Futures ==
    {EmptyMap}
    \cup {[u \in {"u1"} |-> [k \in {"k1"} |-> kif]] : kif \in TLFCryptKeyInfoFutures("u1", "k1")}
    \cup {[u \in Users |-> [k \in DevicesOf[u] |->
              [info |-> [SampleInfo(u, k) EXCEPT !.EPubKeyIndex = i], extra |-> IF k = "k2" THEN EmptyMap ELSE x]]] :
            i \in {0, 1}, x \in ExtraFields}

WireBundleTags == [writer |-> {"wKeys", "pubKey", "ePubKey", "oldKeys"}, reader |-> {"rKeys", "rEPubKey"}]

\* tlfWriterKeyBundleV3Future and tlfReaderKeyBundleV3Future values.
KeyBundleV3Futures ==
    [kind : {"writer"}, Keys : UserDeviceKeyInfoMapV3Futures, TLFPublicKey : {"tlfPub"},
     TLFEphemeralPublicKeys : {<<EPublicKey("e0")>>}, EncryptedHistoricTLFCryptKeys : {ZeroEncryptedData},
     extra : ExtraFields]
    \cup [kind : {"reader"}, Keys : UserDeviceKeyInfoMapV3Futures,
          TLFEphemeralPublicKeys : {<<>>, <<EPublicKey("e1")>>}, extra : ExtraFields]

\* The known fields of a bundle under their tags, the key infos encoded by
\* encodeInfo; the Keys of a reader bundle are tagged omitempty.
EncodeBundleFields(kind, b, encodeInfo(_)) ==
    IF kind = "writer"
    THEN ("wKeys" :> EncodeWireKeys(b.Keys, encodeInfo)) @@ ("pubKey" :> b.TLFPublicKey) @@
         ("ePubKey" :> b.TLFEphemeralPublicKeys) @@ ("oldKeys" :> b.EncryptedHistoricTLFCryptKeys)
    ELSE (IF DOMAIN b.Keys # {} THEN "rKeys" :> EncodeWireKeys(b.Keys, encodeInfo) ELSE EmptyMap) @@
         ("rEPubKey" :> b.TLFEphemeralPublicKeys)

EncodeKeyBundleV3Future(bf) == EncodeBundleFields(bf.kind, bf, EncodeTLFCryptKeyInfoFuture) @@ bf.extra

\* An encoded bundle decoded by the current version as a
\* TLFWriterKeyBundleV3 or a TLFReaderKeyBundleV3.
DecodeWireBundle(kind, wire) ==
    IF kind = "writer"
    THEN [Keys |-> DecodeWireKeys(wire["wKeys"]), TLFPublicKey |-> wire["pubKey"],
          TLFEphemeralPublicKeys |-> wire["ePubKey"], EncryptedHistoricTLFCryptKeys |-> wire["oldKeys"],
          Unknown |-> [f \in (DOMAIN wire) \ WireBundleTags[kind] |-> wire[f]]]
    ELSE [Keys |-> IF "rKeys" \in DOMAIN wire THEN DecodeWireKeys(wire["rKeys"]) ELSE EmptyMap,
          TLFEphemeralPublicKeys |-> wire["rEPubKey"],
          Unknown |-> [f \in (DOMAIN wire) \ WireBundleTags[kind] |-> wire[f]]]

EncodeWireBundle(kind, b) == EncodeBundleFields(kind, b, EncodeWireInfo) @@ b.Unknown

(* SpecCodec: a bundle written by a newer version is received, decoded by   *)
(* the current version and encoded again, any number of times.               *)

InitCodec ==
    /\ udkimV3 = EmptyMap
    /\ \E bf \in KeyBundleV3Futures :
         extra = [kind |-> bf.kind, form |-> "wire", val |-> EncodeKeyBundleV3Future(bf), future |-> bf]
    /\ md = NoMD
    /\ mdServer = NoServer
    /\ ret = NoCall

DoDecode ==
    /\ ret = NoCall
    /\ extra.form = "wire"
    /\ extra' = [extra EXCEPT !.form = "struct", !.val = DecodeWireBundle(extra.kind, extra.val)]
    /\ ret' = [op |-> "Decode", pre |-> extra]
    /\ UNCHANGED <<udkimV3, md, mdServer>>

DoEncode ==
    /\ ret = NoCall
    /\ extra.form = "struct"
    /\ extra' = [extra EXCEPT !.form = "wire", !.val = EncodeWireBundle(extra.kind, extra.val)]
    /\ ret' = [op |-> "Encode", pre |-> extra]
    /\ UNCHANGED <<udkimV3, md, mdServer>>

NextCodec == DoDecode \/ DoEncode \/ TakeResult

SpecCodec == InitCodec /\ [][NextCodec]_vars

C23_ServerHalfBound ==
    /\ (ret.op = "FillInDeviceInfos" /\ ret.err = Nil) =>
         \A k \in (DOMAIN ret.updatedDeviceKeys) \ DOMAIN ret.pre[ret.uid] :
             /\ k \in DOMAIN ret.serverHalves
             /\ udkimV3[ret.uid][k].ServerHalfID = [ID |-> <<ret.uid, k, ret.serverHalves[k]>>]
             /\ udkimV3[ret.uid][k].EPubKeyIndex = ret.ePubIndex
    /\ (ret.op = "FillInUserInfos" /\ ret.err = Nil) =>
         \A u \in DOMAIN ret.updatedUserKeys :
             \A k \in (DOMAIN ret.updatedUserKeys[u]) \ (IF u \in DOMAIN ret.pre THEN DOMAIN ret.pre[u] ELSE {}) :
                 /\ u \in DOMAIN ret.serverHalves
                 /\ k \in DOMAIN ret.serverHalves[u]
                 /\ udkimV3[u][k].ServerHalfID = [ID |-> <<u, k, ret.serverHalves[u][k]>>]
                 /\ udkimV3[u][k].EPubKeyIndex = ret.newIndex

\* A FillInUserInfos that created entries for two users, with server halves
\* that differ.
C23_Witness ==
    /\ ret.op = "FillInUserInfos"
    /\ ret.err = Nil
    /\ DOMAIN ret.serverHalves = Users
    /\ \E k1 \in DOMAIN ret.serverHalves["u1"], k2 \in DOMAIN ret.serverHalves["u2"] :
         ret.serverHalves["u1"][k1] # ret.serverHalves["u2"][k2]

\* C24: after RemoveDevicesNotIn(M), every user of the map is a key of M and
\* every device of a user u of the map is a key of M[u] with value true; and
\* the map has no user and no device it had not before the call, each
\* remaining entry being as it was.
C24_RevocationContained ==
    ret.op = "RemoveDevicesNotIn" =>
        LET M == ret.updatedUserKeys
        IN  /\ \A u \in DOMAIN udkimV3 :
                 /\ u \in DOMAIN M
                 /\ \A k \in DOMAIN udkimV3[u] : k \in DOMAIN M[u] /\ M[u][k]
            /\ DOMAIN udkimV3 \subseteq DOMAIN ret.pre
            /\ \A u \in DOMAIN udkimV3 :
                 /\ DOMAIN udkimV3[u] \subseteq DOMAIN ret.pre[u]
                 /\ \A k \in DOMAIN udkimV3[u] : udkimV3[u][k] = ret.pre[u][k]

\* A call that removed a user, removed a device M lists with value false and
\* kept a device.
C24_Witness ==
    /\ ret.op = "RemoveDevicesNotIn"
    /\ (DOMAIN ret.pre) \ DOMAIN udkimV3 # {}
    /\ \E u \in DOMAIN udkimV3 :
         /\ DOMAIN udkimV3[u] # {}
         /\ \E k \in (DOMAIN ret.pre[u]) \ DOMAIN udkimV3[u] :
              k \in DOMAIN ret.updatedUserKeys[u] /\ ~ret.updatedUserKeys[u][k]

-----------------------------------------------------------------------------
(* Rekeying one generation: RemoveDevicesNotIn(M), then FillInUserInfos(M).  *)

\* Every device M lists has the value true.
AllTrue(m) == \A u \in DOMAIN m : \A k \in DOMAIN m[u] : m[u][k]

\* The arguments of a FillInUserInfos call made with crypto c and index i.
FillArgs(c, i) ==
    [crypto |-> c, uid |-> "", tlfCryptKey |-> GenCryptKey, ePrivKey |-> EPrivKeyAt[i], ePubIndex |-> i]

\* C25: when RemoveDevicesNotIn(M) has been applied with an M whose listed
\* devices are all true, every successful FillInUserInfos(M) that follows
\* leaves a map whose ToPublicKeys() is M; on that map a further
\* RemoveDevicesNotIn(M) changes nothing and returns an empty removal info,
\* and a further FillInUserInfos(M) succeeds and returns no server halves.
C25_RekeyConverges ==
    (ret.op = "RemoveDevicesNotIn" /\ AllTrue(ret.updatedUserKeys)) =>
        LET M == ret.updatedUserKeys
        IN  \A i \in FillIndices, uorder \in Orders(DOMAIN M), dorders \in DeviceOrders(M) :
              \A c \in MapCryptos(CountNewDevices(udkimV3, M, DOMAIN M)) :
                LET r == FillInUserInfos(udkimV3, FillArgs(c, i), M, uorder, dorders)
                IN  r.err = Nil =>
                      /\ ToPublicKeys(r.udkimV3) = M
                      /\ \A o \in Orders(DOMAIN r.udkimV3) :
                           LET q == RemoveDevicesNotIn(r.udkimV3, M, o)
                           IN  q.removalInfo = EmptyMap /\ q.udkimV3 = r.udkimV3
                      /\ \A c2 \in MapCryptos(0) :
                           LET f == FillInUserInfos(r.udkimV3, FillArgs(c2, i), M, uorder, dorders)
                           IN  f.err = Nil /\ f.serverHalves = EmptyMap /\ f.udkimV3 = r.udkimV3

\* A RemoveDevicesNotIn(M) with an all-true M that removed a user and kept a
\* device, after which FillInUserInfos(M) has a device to add.
C25_Witness ==
    /\ ret.op = "RemoveDevicesNotIn"
    /\ AllTrue(ret.updatedUserKeys)
    /\ \E u \in DOMAIN ret.removalInfo : ret.removalInfo[u].UserRemoved
    /\ \E u \in DOMAIN udkimV3 :
         /\ DOMAIN udkimV3[u] # {}
         /\ (DOMAIN ret.updatedUserKeys[u]) \ DOMAIN udkimV3[u] # {}

\* The devices of user u that the map has and `pre` had not.
InsertedDevices(pre, post, u) ==
    (DOMAIN post[u]) \ (IF u \in DOMAIN pre THEN DOMAIN pre[u] ELSE {})

\* C26: a device entry that a successful FillInUserInfos(M) has inserted, for
\* an M with any bool values, is still in the map after an immediately
\* following RemoveDevicesNotIn(M) with the same M.
C26_FillRevokeAgree ==
    (ret.op = "FillInUserInfos" /\ ret.err = Nil) =>
        LET M == ret.updatedUserKeys
        IN  \A o \in Orders(DOMAIN udkimV3) :
              LET q == RemoveDevicesNotIn(udkimV3, M, o)
              IN  \A u \in DOMAIN M :
                    \A k \in InsertedDevices(ret.pre, udkimV3, u) :
                      u \in DOMAIN q.udkimV3 /\ k \in DOMAIN q.udkimV3[u]

\* C27: when FillInDeviceInfos or FillInUserInfos returns an error, the key
\* map is as it was before the call.
C27_NoPartialFillOnError ==
    (ret.op \in {"FillInDeviceInfos", "FillInUserInfos"} /\ ret.err # Nil) =>
        udkimV3 = ret.pre

-----------------------------------------------------------------------------
(* SpecFlags: the WkbNew and RkbNew flags of an ExtraMetadataV3 over a       *)
(* sequence of UpdateNew, DeepCopy and MakeSuccessorCopy calls in which the  *)
(* caller may go on with the copy a call returned.                           *)

\* The caller replaces its ExtraMetadataV3 by the copy the last call returned.
UseCopy ==
    /\ ret.op \in {"DeepCopy", "MakeSuccessorCopy"}
    /\ ret.err = Nil
    /\ extra' = ret.val
    /\ ret' = [op |-> "UseCopy", pre |-> extra, from |-> ret.op]
    /\ UNCHANGED <<udkimV3, md, mdServer>>

NextFlags == DoUpdateNew \/ DoDeepCopy \/ DoMakeSuccessorCopy \/ UseCopy \/ TakeResult

SpecFlags == InitExtra /\ [][NextFlags]_vars

\* C28: UpdateNew(w, r) leaves WkbNew = (WkbNew or w) and RkbNew = (RkbNew or
\* r); a successful DeepCopy returns a value with the receiver's two flags and
\* leaves the receiver as it was; and the flags of the value the caller
\* holds go from true to false only when it takes the result of
\* MakeSuccessorCopy.
C28_DirtyFlagsSticky ==
    /\ ret.op = "UpdateNew" =>
          /\ extra.WkbNew = (ret.pre.WkbNew \/ ret.wkbNew)
          /\ extra.RkbNew = (ret.pre.RkbNew \/ ret.rkbNew)
    /\ (ret.op = "DeepCopy" /\ ret.err = Nil) =>
          /\ ret.val.WkbNew = ret.pre.WkbNew
          /\ ret.val.RkbNew = ret.pre.RkbNew
    /\ ret.op \in {"DeepCopy", "MakeSuccessorCopy"} => extra = ret.pre
    /\ (/\ ret.op \in {"UpdateNew", "UseCopy"}
        /\ \/ ret.pre.WkbNew /\ ~extra.WkbNew
           \/ ret.pre.RkbNew /\ ~extra.RkbNew) =>
          (ret.op = "UseCopy" /\ ret.from = "MakeSuccessorCopy")

\* UpdateNew(false, true) on a value with WkbNew set and RkbNew clear.
C28_Witness ==
    /\ ret.op = "UpdateNew"
    /\ ret.pre.WkbNew /\ ~ret.wkbNew
    /\ ~ret.pre.RkbNew /\ ret.rkbNew

-----------------------------------------------------------------------------
(* DevicePublicKeys.Equals *)

\* DevicePublicKeys values over all devices.
AllDevicePublicKeys == UNION {[S -> BOOLEAN] : S \in SUBSET Devices}

\* other[k] of a Go map to bool: false for a key the map does not have.
Lookup(other, k) == k \in DOMAIN other /\ other[k]

\* dpk.Equals(other).  The loop returns false at the first key k of dpk with
\* !other[k], whatever the order it visits the keys in.
Equals(dpk, other) ==
    IF Cardinality(DOMAIN dpk) # Cardinality(DOMAIN other) THEN FALSE
    ELSE \A k \in DOMAIN dpk : Lookup(other, k)

InitEquals ==
    /\ udkimV3 = EmptyMap
    /\ extra = NoExtra
    /\ md = NoMD
    /\ mdServer = NoServer
    /\ ret = NoCall

DoEquals ==
    /\ ret = NoCall
    /\ \E dpk \in AllDevicePublicKeys, other \in AllDevicePublicKeys :
         ret' = [op |-> "Equals", dpk |-> dpk, other |-> other, val |-> Equals(dpk, other)]
    /\ UNCHANGED <<udkimV3, extra, md, mdServer>>

NextEquals == DoEquals \/ TakeResult

SpecEquals == InitEquals /\ [][NextEquals]_vars

\* C29: for DevicePublicKeys values a and b with any bool values, a.Equals(a)
\* is true, a.Equals(b) equals b.Equals(a), and a.Equals(b) is true exactly
\* when a and b hold the same set of keys.
C29_EqualsIsEquivalence ==
    ret.op = "Equals" =>
        /\ Equals(ret.dpk, ret.dpk)
        /\ ret.val = Equals(ret.other, ret.dpk)
        /\ ret.val = (DOMAIN ret.dpk = DOMAIN ret.other)

\* C30: for every key map K, RemoveDevicesNotIn(K.ToPublicKeys())
\* removes nothing and returns an empty removal info; and after a
\* RemoveDevicesNotIn(M) a second RemoveDevicesNotIn(M) with the same M leaves
\* the map unchanged and returns an empty removal info.
C30_RevocationIdempotent ==
    /\ \A o \in Orders(DOMAIN udkimV3) :
          LET q == RemoveDevicesNotIn(udkimV3, ToPublicKeys(udkimV3), o)
          IN  q.udkimV3 = udkimV3 /\ q.removalInfo = EmptyMap
    /\ ret.op = "RemoveDevicesNotIn" =>
          \A o \in Orders(DOMAIN udkimV3) :
            LET q == RemoveDevicesNotIn(udkimV3, ret.updatedUserKeys, o)
            IN  q.udkimV3 = udkimV3 /\ q.removalInfo = EmptyMap

\* A RemoveDevicesNotIn(M) that removed a user, removed a device of another
\* user and left a device in the map.
C30_Witness ==
    /\ ret.op = "RemoveDevicesNotIn"
    /\ \E u \in DOMAIN ret.removalInfo : ret.removalInfo[u].UserRemoved
    /\ \E u \in DOMAIN ret.removalInfo : ~ret.removalInfo[u].UserRemoved
    /\ \E u \in DOMAIN udkimV3 : DOMAIN udkimV3[u] # {}

====
